---------------------------- MODULE Spec2Model ----------------------------
(***************************************************************************)
(* A model of src/pdf_processor.py: the personalization scan, the          *)
(* gift-message snippet step, the quantity highlight, the batch loop, the  *)
(* ship-to extraction, the stamps, place_page_full, the two composers, and *)
(* parts B to D of the page loop run together.                             *)
(*                                                                         *)
(* Conventions.                                                            *)
(*  - A text line is represented by the set of lower-case phrases that     *)
(*    occur in line_text.lower(); `kw in lower_line` is set membership.    *)
(*  - Python indices are 0-based; the sequences here are 1-based, so the   *)
(*    scan pointers start at 1 and "idx < len(lines_data)" reads           *)
(*    idx <= Len(lines_data).                                              *)
(***************************************************************************)
EXTENDS Integers, Sequences, FiniteSets, TLC

VARIABLES
    \* ---- personalization scan of one page (process_pdf_file, part D)
    lines_data,               \* the page's reconstructed lines
    p_opts,                   \* options: extract_text, highlight_personalization
    idx,                      \* outer scan pointer
    next_idx,                 \* inner (block) scan pointer
    current_item_has_custom,  \* the gate carried across the line scan
    p_pc,                     \* "outer" | "inner" | "done" | "off"
    personalization_doc,      \* paragraphs appended: sequence of line indices
    p_annots,                 \* yellow word highlights: <<line index, word>>
    p_blocks,                 \* history: block start |-> set of lines the block handled
    outer_visits,             \* history: line |-> times examined by the outer loop
    inner_visits,             \* history: line |-> times examined by the inner loop
    \* ---- gift-message snippet step over the content pages (part C)
    g_pages,                  \* content pages 1..N, each the sequence of its text blocks
    g_opts,                   \* options: crop_pages, highlight_gift_snippet, extract_text
    page_index,               \* the page loop's index (content pages start at 1)
    hit_no,                   \* position in `for inst in hits`
    g_pc,                     \* "page" | "hits" | "done" | "off"
    gift_messages_per_page,   \* page_index |-> set of texts already recorded
    gift_doc,                 \* paragraphs appended: <<page_index, final_text>>
    g_annots,                 \* snippet highlights added: <<page_index, rect>>
    g_last,                   \* history: the values computed for the latest hit
    g_captures,               \* history: <<page_index, final_text>> of every hit
    \* ---- quantity highlight of one page (part E)
    q_lines,                  \* the page's lines, each the sequence of its word tokens
    q_opt,                    \* options['highlight_quantity']
    q_i,                      \* position in `for ... in lines_data`
    q_pc,                     \* "loop" | "done" | "off"
    q_annots,                 \* yellow highlights added: <<line number, word index>>
    \* ---- batch loop (PDFBatchProcessorGUI.process_files)
    pdf_files,                \* the selected documents, each by what processing it meets
    generate_2up_thumbs,      \* options['generate_2up_thumbs']
    out_files,                \* document |-> state of its name_modified.pdf on disk
    b_i,                      \* position in `for pdf in pdf_files`
    b_pc,                     \* "process" | "compose" | "finished" | "aborted" | "off"
    status_text,              \* the messages logged, in order
    \* ---- ship-to extraction over the content pages (part F)
    s_total_pages,            \* doc.page_count after the blank page is inserted
    s_pages,                  \* history: the lines get_lines gave for each page read
    s_page_index,             \* the page loop's index (content pages start at 1)
    s_pc,                     \* "loop" | "done" | "off"
    ship_to_info,             \* the ship-to list: <<page_index, extracted_name>>
    \* ---- stamps of one page (part G)
    t_text,                   \* the phrases page.get_text().lower() contains
    stamp_images,             \* the stamp table: key |-> image path ("" = none)
    add_stamps,               \* options['add_stamps']
    t_width,                  \* page.rect.width
    stamps_to_insert,         \* the list built by the trigger checks
    y_offset,                 \* top of the next stamp
    t_k,                      \* position in `for stamp_path in stamps_to_insert`
    t_pc,                     \* "select" | "place" | "done" | "off"
    t_placed,                 \* page.insert_image calls: [path, rect], in order
    \* ---- place_page_full on one page and one cell
    pl_in_rect,               \* in_page.rect
    pl_target_rect,           \* target_rect
    pl_show_rect,             \* show_rect handed to show_pdf_page
    pl_pc,                    \* "call" | "shown" | "off"
    \* ---- the composers (create_two_up_pdf, create_six_page_thumbnail_pdf)
    c_kind,                   \* "two_up" | "thumb": the composer that runs
    num_pages,                \* doc_in.page_count
    c_in_rect,                \* the rect of the source's pages
    c_empty,                  \* source pages show_pdf_page judges empty (ValueError)
    c_i,                      \* the loop variable: i (2-up) or start_idx (thumbnail)
    c_pc,                     \* "start" | "loop" | "saved" | "returned" | "off"
    doc_out,                  \* the sheets made so far, each the cells placed on it
    c_output,                 \* the output file: << >> while absent, else << sheets >>
    \* ---- parts B, C and D of process_pdf_file over the content pages of a document
    r_doc,                    \* content pages 1..N, each the sequence of its text blocks
    options,                  \* the options of the run
    r_page_index,             \* the page loop's index (content pages start at 1)
    r_hit_no,                 \* position in `for inst in hits` of part C
    r_pc,                     \* "B" | "C" | "D" | "done" | "off"
    r_seen,                   \* gift_messages_per_page
    r_gift_doc,               \* gift_doc paragraphs after the heading: <<page_index, text>>
    r_pers_doc,               \* personalization_doc paragraphs: <<page_index, line>>
    r_annots                  \* highlight annotations: [page, color, kind, at]

persVars == << lines_data, p_opts, idx, next_idx, current_item_has_custom, p_pc,
               personalization_doc, p_annots, p_blocks, outer_visits, inner_visits >>

giftVars == << g_pages, g_opts, page_index, hit_no, g_pc, gift_messages_per_page,
               gift_doc, g_annots, g_last, g_captures >>

qtyVars == << q_lines, q_opt, q_i, q_pc, q_annots >>

batchVars == << pdf_files, generate_2up_thumbs, out_files, b_i, b_pc, status_text >>

shipVars == << s_total_pages, s_pages, s_page_index, s_pc, ship_to_info >>

stampVars == << t_text, stamp_images, add_stamps, t_width,
                stamps_to_insert, y_offset, t_k, t_pc, t_placed >>

placeVars == << pl_in_rect, pl_target_rect, pl_show_rect, pl_pc >>

compVars == << c_kind, num_pages, c_in_rect, c_empty, c_i, c_pc, doc_out,
               c_output >>

runVars == << r_doc, options, r_page_index, r_hit_no, r_pc, r_seen,
              r_gift_doc, r_pers_doc, r_annots >>

vars ==
    << persVars, giftVars, qtyVars, batchVars, shipVars, stampVars,
       placeVars, compVars, runVars >>

(***************************************************************************)
(* Each specification below runs one part of the program; the variables of *)
(* the other parts stay at these values.                                   *)
(***************************************************************************)
PersOff ==
    /\ lines_data = << >>
    /\ p_opts = [extract_text |-> FALSE, highlight_personalization |-> FALSE]
    /\ idx = 1
    /\ next_idx = 1
    /\ current_item_has_custom = FALSE
    /\ p_pc = "off"
    /\ personalization_doc = << >>
    /\ p_annots = {}
    /\ p_blocks = << >>
    /\ outer_visits = << >>
    /\ inner_visits = << >>

GiftOff ==
    /\ g_pages = << >>
    /\ g_opts = [crop_pages |-> FALSE, highlight_gift_snippet |-> FALSE,
                 extract_text |-> FALSE]
    /\ page_index = 1
    /\ hit_no = 1
    /\ g_pc = "off"
    /\ gift_messages_per_page = << >>
    /\ gift_doc = << >>
    /\ g_annots = << >>
    /\ g_last = << >>
    /\ g_captures = << >>

QtyOff ==
    /\ q_lines = << >>
    /\ q_opt = FALSE
    /\ q_i = 1
    /\ q_pc = "off"
    /\ q_annots = {}

BatchOff ==
    /\ pdf_files = << >>
    /\ generate_2up_thumbs = FALSE
    /\ out_files = << >>
    /\ b_i = 1
    /\ b_pc = "off"
    /\ status_text = << >>

ShipOff ==
    /\ s_total_pages = 1
    /\ s_pages = << >>
    /\ s_page_index = 1
    /\ s_pc = "off"
    /\ ship_to_info = << >>

StampOff ==
    /\ t_text = {}
    /\ stamp_images = << >>
    /\ add_stamps = FALSE
    /\ t_width = 0
    /\ stamps_to_insert = << >>
    /\ y_offset = 0
    /\ t_k = 1
    /\ t_pc = "off"
    /\ t_placed = << >>

PlaceOff ==
    /\ pl_in_rect = << >>
    /\ pl_target_rect = << >>
    /\ pl_show_rect = << >>
    /\ pl_pc = "off"

CompOff ==
    /\ c_kind = "off"
    /\ num_pages = 0
    /\ c_in_rect = << >>
    /\ c_empty = {}
    /\ c_i = 0
    /\ c_pc = "off"
    /\ doc_out = << >>
    /\ c_output = << >>

RunOff ==
    /\ r_doc = << >>
    /\ options = << >>
    /\ r_page_index = 1
    /\ r_hit_no = 1
    /\ r_pc = "off"
    /\ r_seen = << >>
    /\ r_gift_doc = << >>
    /\ r_pers_doc = << >>
    /\ r_annots = {}

notPers ==
    << giftVars, qtyVars, batchVars, shipVars, stampVars, placeVars,
       compVars, runVars >>

notGift ==
    << persVars, qtyVars, batchVars, shipVars, stampVars, placeVars,
       compVars, runVars >>

notQty ==
    << persVars, giftVars, batchVars, shipVars, stampVars, placeVars,
       compVars, runVars >>

notBatch ==
    << persVars, giftVars, qtyVars, shipVars, stampVars, placeVars,
       compVars, runVars >>

notShip ==
    << persVars, giftVars, qtyVars, batchVars, stampVars, placeVars,
       compVars, runVars >>

notStamp ==
    << persVars, giftVars, qtyVars, batchVars, shipVars, placeVars,
       compVars, runVars >>

notPlace ==
    << persVars, giftVars, qtyVars, batchVars, shipVars, stampVars,
       compVars, runVars >>

notComp ==
    << persVars, giftVars, qtyVars, batchVars, shipVars, stampVars,
       placeVars, runVars >>

notRun ==
    << persVars, giftVars, qtyVars, batchVars, shipVars, stampVars,
       placeVars, compVars >>

(***************************************************************************)
(* Bounds of the model.                                                    *)
(***************************************************************************)
MaxLines == 4
MaxBlocks == 3
MaxPages == 2
MaxWords == 4
MaxDocs == 3
MaxShipLines == 3
MaxUnconfigured == 1
MaxPageSide == 4
MaxSourcePages == 8
MaxRunPages == 3

(***************************************************************************)
(* Personalization scan: phrases.                                          *)
(***************************************************************************)
personalization_marker == "personalization:"

item_descriptors == { "word or message:", "word or mssg:", "morse code:" }

stop_keywords_no_descriptors ==
    { "size:", "quantity:", "sku:", "private notes", "scheduled to ship by",
      "note from buyer", "do the green thing",
      "reuse this paper to make origami, confetti", "or your next to-do list." }

stop_keywords ==
    { "size:", "word or mssg:", "word or message:", "morse code:", "quantity:",
      "sku:", "private notes", "scheduled to ship by", "note from buyer",
      "do the green thing", "reuse this paper to make origami, confetti",
      "or your next to-do list." }

\* any(desc in lower_line for desc in item_descriptors)
is_descriptor(line) == \E desc \in item_descriptors : desc \in line

\* the assignment under `if is_descriptor:`
DescriptorUpdate_sticky(cur, line) ==
    IF is_descriptor(line) THEN cur \/ ("custom" \in line) ELSE cur

DescriptorUpdate(cur, line) ==
    IF is_descriptor(line) THEN "custom" \in line ELSE cur

\* any(kw in lower_nl_text for kw in stop_keywords)
HasStopKeyword(line) == \E kw \in stop_keywords : kw \in line

\* the two `break` conditions of the inner loop
BlockStops(line) == HasStopKeyword(line) \/ personalization_marker \in line

\* idx = next_idx
ResumeIdx_skip(nx) == nx + 1

ResumeIdx(nx) == nx

\* the words of a line that are highlighted: all but those containing the marker
HighlightWords(line) == { w \in line : w # personalization_marker }

(***************************************************************************)
(* Inputs of the personalization scan.  A page uses one descriptor phrase  *)
(* d and one further phrase s; its lines are drawn from LinePool(d, s).    *)
(***************************************************************************)
OtherPhrases ==
    { "size:", "quantity:", "sku:", "private notes", "scheduled to ship by",
      "note from buyer", "do the green thing",
      "reuse this paper to make origami, confetti", "or your next to-do list.",
      "ship to" }

DescriptorFor(s) ==
    CASE s \in { "size:", "private notes", "do the green thing", "ship to" }
            -> "word or message:"
      [] s \in { "quantity:", "scheduled to ship by",
                 "reuse this paper to make origami, confetti" }
            -> "word or mssg:"
      [] OTHER -> "morse code:"

LinePool(d, s) ==
    { {"anna"}, {"custom", "anna"}, {d, "custom"}, {d},
      {personalization_marker, "anna"}, {d, "custom", personalization_marker}, {s} }

SeqsUpTo(S, n) == UNION { [1..k -> S] : k \in 0..n }

Pages == UNION { SeqsUpTo(LinePool(DescriptorFor(s), s), MaxLines) : s \in OtherPhrases }

PersInit ==
    /\ lines_data \in Pages
    /\ p_opts \in [extract_text : BOOLEAN, highlight_personalization : BOOLEAN]
    /\ idx = 1
    /\ next_idx = 1
    /\ current_item_has_custom = FALSE
    /\ p_pc = "outer"
    /\ personalization_doc = << >>
    /\ p_annots = {}
    /\ p_blocks = << >>
    /\ outer_visits = [i \in 1..Len(lines_data) |-> 0]
    /\ inner_visits = [i \in 1..Len(lines_data) |-> 0]

\* what one block line writes: a paragraph (extract_text) and word highlights
Emit(i) ==
    /\ personalization_doc' =
          IF p_opts.extract_text THEN Append(personalization_doc, i)
                                 ELSE personalization_doc
    /\ p_annots' =
          IF p_opts.highlight_personalization
          THEN p_annots \cup { <<i, w>> : w \in HighlightWords(lines_data[i]) }
          ELSE p_annots

\* one iteration of `while idx < len(lines_data)`
PersOuter ==
    /\ p_pc = "outer"
    /\ idx <= Len(lines_data)
    /\ LET line == lines_data[idx]
           flag == DescriptorUpdate(current_item_has_custom, line)
       IN  /\ current_item_has_custom' = flag
           /\ outer_visits' = [outer_visits EXCEPT ![idx] = @ + 1]
           /\ IF personalization_marker \in line /\ flag
              THEN /\ Emit(idx)
                   /\ next_idx' = idx + 1
                   /\ p_pc' = "inner"
                   /\ p_blocks' = (idx :> {idx}) @@ p_blocks
                   /\ UNCHANGED idx
              ELSE /\ idx' = idx + 1
                   /\ UNCHANGED << next_idx, p_pc, personalization_doc,
                                   p_annots, p_blocks >>
    /\ UNCHANGED << lines_data, p_opts, inner_visits >>
    /\ UNCHANGED notPers

\* one iteration of `while next_idx < len(lines_data)` that does not break
PersInnerLine ==
    /\ p_pc = "inner"
    /\ next_idx <= Len(lines_data)
    /\ ~BlockStops(lines_data[next_idx])
    /\ Emit(next_idx)
    /\ inner_visits' = [inner_visits EXCEPT ![next_idx] = @ + 1]
    /\ p_blocks' = [p_blocks EXCEPT ![idx] = @ \cup {next_idx}]
    /\ next_idx' = next_idx + 1
    /\ UNCHANGED << lines_data, p_opts, idx, current_item_has_custom, p_pc,
                    outer_visits >>
    /\ UNCHANGED notPers

\* the inner loop ends (break, or end of page) and idx = next_idx
PersBlockClose ==
    /\ p_pc = "inner"
    /\ \/ next_idx > Len(lines_data)
       \/ /\ next_idx <= Len(lines_data)
          /\ BlockStops(lines_data[next_idx])
    /\ inner_visits' =
          IF next_idx <= Len(lines_data)
          THEN [inner_visits EXCEPT ![next_idx] = @ + 1]
          ELSE inner_visits
    /\ idx' = ResumeIdx(next_idx)
    /\ p_pc' = "outer"
    /\ UNCHANGED << lines_data, p_opts, next_idx, current_item_has_custom,
                    personalization_doc, p_annots, p_blocks, outer_visits >>
    /\ UNCHANGED notPers

\* the outer loop condition fails
PersDone ==
    /\ p_pc = "outer"
    /\ idx > Len(lines_data)
    /\ p_pc' = "done"
    /\ UNCHANGED << lines_data, p_opts, idx, next_idx, current_item_has_custom,
                    personalization_doc, p_annots, p_blocks, outer_visits,
                    inner_visits >>
    /\ UNCHANGED notPers

PersNext == PersOuter \/ PersInnerLine \/ PersBlockClose \/ PersDone

InitPers ==
    /\ PersInit
    /\ GiftOff
    /\ QtyOff
    /\ BatchOff
    /\ ShipOff
    /\ StampOff
    /\ PlaceOff
    /\ CompOff
    /\ RunOff

SpecPers == InitPers /\ [][PersNext]_vars

(***************************************************************************)
(* Claims about the personalization scan.                                  *)
(***************************************************************************)
NLines == Len(lines_data)

Max(S) == CHOOSE m \in S : \A x \in S : x <= m

Min(S) == CHOOSE m \in S : \A x \in S : m <= x

\* index of the latest descriptor line at or before line i, 0 when there is none
LatestDescriptor(i) ==
    Max({0} \cup { j \in 1..i : is_descriptor(lines_data[j]) })

\* the latest descriptor line at or before line i exists and contains "custom"
GateAt(i) ==
    /\ LatestDescriptor(i) # 0
    /\ "custom" \in lines_data[LatestDescriptor(i)]

IsMarker(i) == personalization_marker \in lines_data[i]

Opened == DOMAIN p_blocks

\* C2: a block opens at a marker line only if the latest descriptor line at or
\* before it contained "custom" (none so far: no block); and every marker line is
\* gated by that latest descriptor alone, so at the end of the scan the opened
\* blocks are exactly the marker lines whose latest descriptor had "custom".
C2_GateOnLatestDescriptor ==
    /\ \A i \in Opened : IsMarker(i) /\ GateAt(i)
    /\ p_pc = "done" =>
          \A i \in 1..NLines : (IsMarker(i) /\ GateAt(i)) => i \in Opened

\* a finished scan with three marker lines of which the first opened a block, the
\* second was refused after a later descriptor without "custom", and the third
\* opened a block again after a still later descriptor with "custom"
C2_Witness ==
    /\ p_pc = "done"
    /\ \E i, j, k \in 1..NLines :
          /\ i < j /\ j < k
          /\ IsMarker(i) /\ IsMarker(j) /\ IsMarker(k)
          /\ i \in Opened /\ j \notin Opened /\ k \in Opened
          /\ LatestDescriptor(j) > i
          /\ LatestDescriptor(k) > j

\* the stop keywords as the claim lists them
ClaimedStopKeywords ==
    { "size:", "word or message:", "word or mssg:", "morse code:", "quantity:",
      "sku:", "private notes", "scheduled to ship by", "do the green thing",
      "reuse this paper to make origami, confetti", "or your next to-do list." }

\* first line after b that holds one of the keywords K or the marker; NLines + 1
\* when there is none
BlockEnd(b, K) ==
    Min({ NLines + 1 } \cup
        { j \in (b + 1)..NLines :
            IsMarker(j) \/ \E kw \in K : kw \in lines_data[j] })

\* the block opened at b is closed: the scan is no longer inside it
Closed(b) == ~(p_pc = "inner" /\ idx = b)

AllBlockLines == UNION { p_blocks[b] : b \in Opened }

\* the paragraphs are the block lines, one each, in page order
OneEntryPerBlockLine ==
    IF p_opts.extract_text
    THEN /\ { personalization_doc[n] : n \in DOMAIN personalization_doc } = AllBlockLines
         /\ \A m, n \in DOMAIN personalization_doc :
               m < n => personalization_doc[m] < personalization_doc[n]
    ELSE personalization_doc = << >>

BlocksEndAt(K) ==
    \A b \in Opened :
        /\ p_blocks[b] \subseteq b..(BlockEnd(b, K) - 1)
        /\ Closed(b) => p_blocks[b] = b..(BlockEnd(b, K) - 1)

\* C9 as stated: a block is its marker line and the following lines up to the
\* first later line with one of the listed stop keywords or another marker, or
\* the end of the page; each block line yields one entry under extract_text.
C9_BlockExtent_AsClaimed ==
    /\ BlocksEndAt(ClaimedStopKeywords)
    /\ OneEntryPerBlockLine

\* C9 amended: the same with "note from buyer" among the stop keywords.
C9_BlockExtent ==
    /\ BlocksEndAt(ClaimedStopKeywords \cup { "note from buyer" })
    /\ OneEntryPerBlockLine

\* a finished scan with extraction on in which a block of two or more lines was
\* ended by a stop-keyword line that is not a descriptor line
C9_Witness ==
    /\ p_pc = "done"
    /\ p_opts.extract_text
    /\ \E b \in Opened :
          /\ Cardinality(p_blocks[b]) >= 2
          /\ Max(p_blocks[b]) < NLines
          /\ ~IsMarker(Max(p_blocks[b]) + 1)
          /\ ~is_descriptor(lines_data[Max(p_blocks[b]) + 1])

\* lines a block consumed after its marker line
Interior == UNION { p_blocks[b] \ {b} : b \in Opened }

\* C10: after a block closes the outer scan resumes at the line that ended it.
\* Blocks are pairwise disjoint and no line is extracted twice; when the scan is
\* over every line but the interior block lines was examined by the outer loop
\* exactly once (so was every line that stopped a block) and the interior lines
\* never; in the outer loop the flag is the one of the latest descriptor before
\* idx (never stale); no line is examined more than once by either loop, and the
\* scan can always take a step until it is done.
C10_ResumeAtStopLine ==
    /\ \A a, b \in Opened : a # b => p_blocks[a] \cap p_blocks[b] = {}
    /\ \A m, n \in DOMAIN personalization_doc :
          m # n => personalization_doc[m] # personalization_doc[n]
    /\ \A i \in 1..NLines : outer_visits[i] <= 1 /\ inner_visits[i] <= 1
    /\ p_pc = "outer" =>
          /\ idx <= NLines + 1
          /\ current_item_has_custom = (idx > 1 /\ GateAt(idx - 1))
    /\ p_pc = "done" =>
          \A i \in 1..NLines :
              /\ outer_visits[i] = (IF i \in Interior THEN 0 ELSE 1)
              /\ inner_visits[i] = (IF i \in Interior \/ (i > 1 /\ i - 1 \in AllBlockLines)
                                    THEN 1 ELSE 0)
    /\ p_pc # "done" => ENABLED PersNext

\* a finished scan with two adjacent blocks: the marker line that ended the first
\* block was examined by the outer loop and opened the second
C10_Witness ==
    /\ p_pc = "done"
    /\ \E a, b \in Opened :
          /\ a < b
          /\ Cardinality(p_blocks[a]) >= 2
          /\ Max(p_blocks[a]) + 1 = b
          /\ inner_visits[b] = 1 /\ outer_visits[b] = 1

(***************************************************************************)
(* Gift-message snippet step (process_pdf_file, part C).                   *)
(*                                                                         *)
(* A rectangle is <<x0, y0, x1, y1>>, y growing downward, in units of      *)
(* 1/10000 pt so that the excluded zones, given in inches with four        *)
(* decimals, are integers.                                                 *)
(***************************************************************************)
Pt(n) == n * 10000

MinOf(a, b) == IF a <= b THEN a ELSE b

MaxOf(a, b) == IF a >= b THEN a ELSE b

\* fitz.Rect.is_empty
RectIsEmpty(r) == r[1] >= r[3] \/ r[2] >= r[4]

\* fitz.Rect.intersects: the intersection has positive area
Intersects(a, b) ==
    /\ ~RectIsEmpty(a)
    /\ ~RectIsEmpty(b)
    /\ ~RectIsEmpty(<< MaxOf(a[1], b[1]), MaxOf(a[2], b[2]),
                       MinOf(a[3], b[3]), MinOf(a[4], b[4]) >>)

\* fitz.Rect.__or__ with a rectangle (bounding_rect |= rect)
RectUnion(a, b) ==
    IF RectIsEmpty(b) THEN a
    ELSE IF RectIsEmpty(a) THEN b
    ELSE << MinOf(a[1], b[1]), MinOf(a[2], b[2]),
            MaxOf(a[3], b[3]), MaxOf(a[4], b[4]) >>

\* fitz.Rect.__bool__ (`if bounding_rect:`)
RectBool(r) == ~(r = << 0, 0, 0, 0 >>)

\* bounding_rect = None
NoRect == << >>

gift_trigger_phrase == "gift message"

\* the excluded zones, in 1/10000 inch
excluded_zones_inch ==
    << << 4313, 23914, 105440, 17479 >>, << 23784, 83065, 97430, 71824 >> >>

crop_rect == << Pt(0), Pt(105), Pt(612), Pt(792) >>

\* inches * 72.0, from 1/10000 inch to 1/10000 pt
inches_to_points(inches) == inches * 72

inches_to_rect(page_h, left_in, right_in, top_in, bottom_in) ==
    LET x0 == inches_to_points(left_in)
        x1 == inches_to_points(right_in)
        y0 == page_h - inches_to_points(top_in)
        y1 == page_h - inches_to_points(bottom_in)
    IN  << MinOf(x0, x1), MinOf(y0, y1), MaxOf(x0, x1), MaxOf(y0, y1) >>

get_excluded_rects(page_h) ==
    [ z \in DOMAIN excluded_zones_inch |->
        inches_to_rect(page_h, excluded_zones_inch[z][1], excluded_zones_inch[z][2],
                       excluded_zones_inch[z][3], excluded_zones_inch[z][4]) ]

\* page.rect.height: the crop rectangle's height after set_mediabox(crop_rect),
\* else the height of the letter page the crop rectangle is cut from
PageHeight(opts) ==
    IF opts.crop_pages THEN crop_rect[4] - crop_rect[2] ELSE crop_rect[4]

expand_left == 36
expand_right == 36
expand_up == 72
expand_down == 216

expanded_rect(inst) ==
    << inst[1] - Pt(expand_left), inst[2] - Pt(expand_down),
       inst[3] + Pt(expand_right), inst[4] + Pt(expand_up) >>

\* re.search(r"gift message", ln, re.IGNORECASE) on one line
LineMatches(ln) == gift_trigger_phrase \in ln

\* the same search on a block's text: the phrase holds no line break, so it is
\* found in the text iff it is found in one of its lines
TextMatches(text) == \E k \in DOMAIN text : LineMatches(text[k])

\* the blocks kept for a hit: those that intersect expanded_rect and no excluded
\* zone, in page order, as (btext.strip(), block_rect)
SnippetBlocks(blocks, expanded, excluded) ==
    LET Keep(b) ==
            /\ Intersects(b.rect, expanded)
            /\ ~\E z \in DOMAIN excluded : Intersects(b.rect, excluded[z])
    IN  SelectSeq(blocks, Keep)

RECURSIVE JoinLines(_)
\* "\n".join(...) as lines: a block of empty text contributes one empty line
JoinLines(sb) ==
    IF sb = << >> THEN << >>
    ELSE (IF Head(sb).text = << >> THEN << {} >> ELSE Head(sb).text)
         \o JoinLines(Tail(sb))

\* snippet_text.splitlines(): a final line break opens no further line
SnippetLines(sb) ==
    LET joined == JoinLines(sb)
    IN  IF sb # << >> /\ sb[Len(sb)].text = << >>
        THEN SubSeq(joined, 1, Len(joined) - 1)
        ELSE joined

RECURSIVE CaptureFrom(_, _, _, _)
\* the loop `for ln in lines` from line k on
CaptureFrom(lines, k, capturing, acc) ==
    IF k > Len(lines) THEN acc
    ELSE IF LineMatches(lines[k]) /\ capturing THEN acc
    ELSE IF LineMatches(lines[k]) \/ capturing
         THEN CaptureFrom(lines, k + 1, TRUE, Append(acc, lines[k]))
         ELSE CaptureFrom(lines, k + 1, FALSE, acc)

RECURSIVE CaptureThrough(_, _, _, _)
\* a variant whose window also takes the second matching line
CaptureThrough(lines, k, capturing, acc) ==
    IF k > Len(lines) THEN acc
    ELSE IF LineMatches(lines[k]) /\ capturing THEN Append(acc, lines[k])
    ELSE IF LineMatches(lines[k]) \/ capturing
         THEN CaptureThrough(lines, k + 1, TRUE, Append(acc, lines[k]))
         ELSE CaptureThrough(lines, k + 1, FALSE, acc)

CapturedLines_through(lines) == CaptureThrough(lines, 1, FALSE, << >>)

CapturedLines(lines) == CaptureFrom(lines, 1, FALSE, << >>)

RECURSIVE Strip(_)
\* "\n".join(captured_lines).strip(): blank lines at either end fall away
Strip(ls) ==
    IF ls = << >> THEN << >>
    ELSE IF Head(ls) = {} THEN Strip(Tail(ls))
    ELSE IF ls[Len(ls)] = {} THEN Strip(SubSeq(ls, 1, Len(ls) - 1))
    ELSE ls

RECURSIVE RectWindowFrom(_, _, _, _)
\* the loop `for (txt, rect) in snippet_blocks`: the indices of the blocks whose
\* rect goes into bounding_rect
RectWindowFrom(sb, k, capturing, acc) ==
    IF k > Len(sb) THEN acc
    ELSE IF TextMatches(sb[k].text) /\ capturing THEN acc
    ELSE IF TextMatches(sb[k].text) \/ capturing
         THEN RectWindowFrom(sb, k + 1, TRUE, acc \cup {k})
         ELSE RectWindowFrom(sb, k + 1, FALSE, acc)

RectWindow(sb) == RectWindowFrom(sb, 1, FALSE, {})

RECURSIVE UnionOver(_, _, _, _)
\* bounding_rect = rect for the first block of S, bounding_rect |= rect after it
UnionOver(sb, S, k, acc) ==
    IF k > Len(sb) THEN acc
    ELSE IF k \notin S THEN UnionOver(sb, S, k + 1, acc)
    ELSE IF acc = NoRect THEN UnionOver(sb, S, k + 1, sb[k].rect)
    ELSE UnionOver(sb, S, k + 1, RectUnion(acc, sb[k].rect))

\* bounding_rect after the loop (NoRect for None)
BoundingRect(sb) == UnionOver(sb, RectWindow(sb), 1, NoRect)

\* `if final_text and do_text_extraction and gift_doc:` then `not in` the page's set
IsNewEntry_no_dedup(opts, final_text, seen) ==
    final_text # << >> /\ opts.extract_text

IsNewEntry(opts, final_text, seen) ==
    final_text # << >> /\ opts.extract_text /\ final_text \notin seen

\* a variant that highlights the kept blocks whether or not one of them matched
AddsHighlight_any_block(opts, sb) ==
    opts.highlight_gift_snippet /\ sb # << >>

\* `if do_snippet_highlight and snippet_blocks:` ... `if bounding_rect:`
AddsHighlight(opts, sb) ==
    /\ opts.highlight_gift_snippet
    /\ sb # << >>
    /\ BoundingRect(sb) # NoRect
    /\ RectBool(BoundingRect(sb))

\* gift_messages_per_page[page_index] = set()
FreshSeen_carried(seen, p) ==
    IF p - 1 \in DOMAIN seen THEN seen[p - 1] ELSE {}

FreshSeen(seen, p) == {}

\* page.search_for("gift message", flags=1): one hit for each line of the page that
\* holds the phrase, in page order, at the start of that line (lines are 12 pt
\* high, the phrase 70 pt wide)
HitOfLine(b, k) ==
    << b.rect[1], b.rect[2] + Pt(12) * (k - 1),
       b.rect[1] + Pt(70), b.rect[2] + Pt(12) * k >>

RECURSIVE PageHits(_)
PageHits(blocks) ==
    IF blocks = << >> THEN << >>
    ELSE LET b == Head(blocks)
             ks == SelectSeq([k \in 1..Len(b.text) |-> k],
                             LAMBDA k : LineMatches(b.text[k]))
         IN  [n \in 1..Len(ks) |-> HitOfLine(b, ks[n])] \o PageHits(Tail(blocks))

(***************************************************************************)
(* Inputs of the gift step: text blocks of a cropped or uncropped letter   *)
(* page.  GM and GMI hold the trigger phrase, NOTE does not.               *)
(***************************************************************************)
GM == { "gift message", "happy birthday" }
GMI == { "gift message", "included" }
NOTE == { "love, mom" }

BlockPool ==
    { \* the message heading, in the body of the page
      [rect |-> << Pt(200), Pt(300), Pt(400), Pt(312) >>, text |-> << GM >>],
      \* a heading block that holds the phrase on two lines
      [rect |-> << Pt(200), Pt(300), Pt(400), Pt(324) >>, text |-> << GM, GMI >>],
      \* the message body right below
      [rect |-> << Pt(200), Pt(330), Pt(400), Pt(342) >>, text |-> << NOTE >>],
      \* a block below whose second line holds the phrase again
      [rect |-> << Pt(200), Pt(350), Pt(400), Pt(374) >>, text |-> << NOTE, GMI >>],
      \* a block further down: within 216 pt below the heading, not within 72 pt
      [rect |-> << Pt(200), Pt(420), Pt(400), Pt(432) >>, text |-> << GMI >>],
      \* a block above the heading: inside the second excluded zone of an
      \* uncropped page only
      [rect |-> << Pt(200), Pt(180), Pt(400), Pt(192) >>, text |-> << NOTE >>],
      \* a block in the first excluded zone (the left column)
      [rect |-> << Pt(100), Pt(300), Pt(190), Pt(312) >>, text |-> << GM >>] }

\* layouts of the pages of a document of several pages
PagePool ==
    LET B(x0, y0, x1, y1, t) == [rect |-> << Pt(x0), Pt(y0), Pt(x1), Pt(y1) >>, text |-> t]
    IN  { << >>,
          << B(200, 300, 400, 312, << GM >>), B(200, 330, 400, 342, << NOTE >>) >>,
          << B(200, 300, 400, 312, << GM >>), B(200, 350, 400, 374, << NOTE, GMI >>) >>,
          << B(200, 300, 400, 312, << GMI >>), B(100, 300, 190, 312, << GM >>) >> }

GiftDocs ==
    { << pg >> : pg \in SeqsUpTo(BlockPool, MaxBlocks) }
      \cup UNION { [1..n -> PagePool] : n \in 2..MaxPages }

GiftInit ==
    /\ g_pages \in GiftDocs
    /\ g_opts \in [crop_pages : BOOLEAN, highlight_gift_snippet : BOOLEAN,
                   extract_text : BOOLEAN]
    /\ page_index = 1
    /\ hit_no = 1
    /\ g_pc = "page"
    /\ gift_messages_per_page = << >>
    /\ gift_doc = << >>
    /\ g_annots = << >>
    /\ g_last = << >>
    /\ g_captures = << >>

\* the page loop reaches a content page: its set of recorded texts starts empty
GiftBeginPage ==
    /\ g_pc = "page"
    /\ page_index <= Len(g_pages)
    /\ gift_messages_per_page' =
          (page_index :> FreshSeen(gift_messages_per_page, page_index))
             @@ gift_messages_per_page
    /\ hit_no' = 1
    /\ g_pc' = "hits"
    /\ UNCHANGED << g_pages, g_opts, page_index, gift_doc, g_annots, g_last,
                    g_captures >>
    /\ UNCHANGED notGift

\* one iteration of `for inst in hits`
GiftHit ==
    /\ g_pc = "hits"
    /\ g_opts.highlight_gift_snippet \/ g_opts.extract_text
    /\ hit_no <= Len(PageHits(g_pages[page_index]))
    /\ LET inst == PageHits(g_pages[page_index])[hit_no]
           expanded == expanded_rect(inst)
           sb == SnippetBlocks(g_pages[page_index], expanded,
                               get_excluded_rects(PageHeight(g_opts)))
           lines == SnippetLines(sb)
           captured == CapturedLines(lines)
           final_text == Strip(captured)
           new == IsNewEntry(g_opts, final_text, gift_messages_per_page[page_index])
           hl == AddsHighlight(g_opts, sb)
       IN  /\ gift_messages_per_page' =
                 IF new
                 THEN [gift_messages_per_page EXCEPT ![page_index] = @ \cup {final_text}]
                 ELSE gift_messages_per_page
           /\ gift_doc' =
                 IF new THEN Append(gift_doc, << page_index, final_text >>)
                        ELSE gift_doc
           /\ g_annots' =
                 IF hl THEN Append(g_annots, << page_index, BoundingRect(sb) >>)
                       ELSE g_annots
           /\ g_last' = [ page |-> page_index, inst |-> inst, expanded_rect |-> expanded,
                          snippet_blocks |-> sb, lines |-> lines,
                          captured_lines |-> captured, final_text |-> final_text,
                          rect_blocks |-> RectWindow(sb),
                          entry_added |-> new, annot_added |-> hl ]
           /\ g_captures' = Append(g_captures, << page_index, final_text >>)
    /\ hit_no' = hit_no + 1
    /\ UNCHANGED << g_pages, g_opts, page_index, g_pc >>
    /\ UNCHANGED notGift

\* the step is skipped (neither option set) or the hits are exhausted (none at
\* all among them): on to the next page
GiftEndPage ==
    /\ g_pc = "hits"
    /\ \/ ~(g_opts.highlight_gift_snippet \/ g_opts.extract_text)
       \/ hit_no > Len(PageHits(g_pages[page_index]))
    /\ page_index' = page_index + 1
    /\ g_pc' = IF page_index + 1 > Len(g_pages) THEN "done" ELSE "page"
    /\ UNCHANGED << g_pages, g_opts, hit_no, gift_messages_per_page, gift_doc,
                    g_annots, g_last, g_captures >>
    /\ UNCHANGED notGift

GiftNext == GiftBeginPage \/ GiftHit \/ GiftEndPage

InitGift ==
    /\ GiftInit
    /\ PersOff
    /\ QtyOff
    /\ BatchOff
    /\ ShipOff
    /\ StampOff
    /\ PlaceOff
    /\ CompOff
    /\ RunOff

SpecGift == InitGift /\ [][GiftNext]_vars

(***************************************************************************)
(* Claims about the gift-message snippet step.                             *)
(***************************************************************************)
HitDone == g_last # << >>

\* indices of the lines that hold the trigger phrase
MatchingLines(lines) == { k \in DOMAIN lines : LineMatches(lines[k]) }

\* C3: the captured lines start at the first line holding "gift message"; with
\* one such line they run to the last line of the text, with two or more they end
\* just before the second, and with none nothing is captured.
C3_CaptureWindow ==
    HitDone =>
        LET lines == g_last.lines
            M == MatchingLines(lines)
            first == Min(M)
            second == Min(M \ {first})
        IN  g_last.captured_lines =
               IF M = {} THEN << >>
               ELSE IF Cardinality(M) = 1 THEN SubSeq(lines, first, Len(lines))
               ELSE SubSeq(lines, first, second - 1)

\* a hit whose text holds the phrase on two lines, with a captured line between
\* them and a line after the second
C3_Witness ==
    /\ HitDone
    /\ Cardinality(MatchingLines(g_last.lines)) >= 2
    /\ Len(g_last.captured_lines) >= 2
    /\ Len(g_last.lines) > Len(g_last.captured_lines) + 1

Count(seq, x) == Cardinality({ n \in DOMAIN seq : seq[n] = x })

\* C4: the gift-message document holds at most one entry per page and trimmed
\* text; with extraction on, every non-empty text captured on a page, however
\* many hits captured it, has exactly one entry for that page.
C4_OneEntryPerPageText ==
    /\ \A n \in DOMAIN gift_doc : Count(gift_doc, gift_doc[n]) = 1
    /\ \A n \in DOMAIN g_captures :
          (g_opts.extract_text /\ g_captures[n][2] # << >>)
             => Count(gift_doc, g_captures[n]) = 1

\* a finished run in which two hits of page 1 captured the same text and a hit
\* of page 2 captured that text again: one entry for each of the two pages
C4_Witness ==
    /\ g_pc = "done"
    /\ g_opts.extract_text
    /\ \E m, n, k \in DOMAIN g_captures :
          /\ m < n
          /\ g_captures[m][1] = 1 /\ g_captures[n][1] = 1 /\ g_captures[k][1] = 2
          /\ g_captures[m][2] # << >>
          /\ g_captures[m][2] = g_captures[n][2]
          /\ g_captures[m][2] = g_captures[k][2]
          /\ Count(gift_doc, << 1, g_captures[m][2] >>) = 1
          /\ Count(gift_doc, << 2, g_captures[m][2] >>) = 1

\* C6 as stated: the expansion rectangle reaches 36 pt to the left and right of
\* the hit, 72 pt above it (smaller y) and 216 pt below it (larger y).
C6_ExpansionRect_AsClaimed ==
    HitDone =>
        g_last.expanded_rect =
            << g_last.inst[1] - Pt(36), g_last.inst[2] - Pt(72),
               g_last.inst[3] + Pt(36), g_last.inst[4] + Pt(216) >>

\* lines of the snippet text that come from block k of the kept blocks
LinesOfBlock(sb, k) ==
    LET before == Len(JoinLines(SubSeq(sb, 1, k - 1)))
    IN  (before + 1)..(before + Len(sb[k].text))

\* the lines captured: from the first matching line, as many as were captured
CapturedRange(lines, captured) ==
    IF captured = << >> THEN {}
    ELSE Min(MatchingLines(lines))..(Min(MatchingLines(lines)) + Len(captured) - 1)

\* the blocks that contribute at least one captured line
TextBlocks(sb, lines, captured) ==
    { k \in DOMAIN sb : LinesOfBlock(sb, k) \cap CapturedRange(lines, captured) # {} }

RECURSIVE UnionOfRects(_, _)
UnionOfRects(sb, S) ==
    IF S = {} THEN NoRect
    ELSE LET k == Min(S)
             rest == UnionOfRects(sb, S \ {k})
         IN  IF rest = NoRect THEN sb[k].rect ELSE RectUnion(sb[k].rect, rest)

\* C7 as stated: with snippet highlighting on, the highlight rectangle is the
\* union of the rects of exactly the blocks that contribute a captured line.
C7_RectCoversSnippet_AsClaimed ==
    (HitDone /\ g_opts.highlight_gift_snippet) =>
        LET sb == g_last.snippet_blocks
            T == TextBlocks(sb, g_last.lines, g_last.captured_lines)
        IN  /\ g_last.rect_blocks = T
            /\ g_last.annot_added <=> T # {}
            /\ g_last.annot_added =>
                  g_annots[Len(g_annots)] = << g_last.page, UnionOfRects(sb, T) >>

HitsOf(p) == { n \in DOMAIN g_captures : g_captures[n][1] = p }

\* C8: a hit whose captured text is empty adds no entry and no highlight, and a
\* page without a hit gets neither: every entry has a non-empty text captured on
\* its page, the highlights of a page are no more than its hits with a non-empty
\* text, and the text of a hit is empty exactly when no kept line holds the phrase.
C8_EmptyCaptureNoOutput ==
    /\ HitDone =>
          /\ g_last.final_text = << >> <=> MatchingLines(g_last.lines) = {}
          /\ g_last.final_text = << >> => ~g_last.entry_added /\ ~g_last.annot_added
    /\ \A n \in DOMAIN gift_doc :
          /\ gift_doc[n][2] # << >>
          /\ \E m \in HitsOf(gift_doc[n][1]) : g_captures[m] = gift_doc[n]
    /\ \A p \in 1..Len(g_pages) :
          Cardinality({ n \in DOMAIN g_annots : g_annots[n][1] = p })
             <= Cardinality({ m \in HitsOf(p) : g_captures[m][2] # << >> })

\* a hit in a block of an excluded zone: blocks were kept for it, none of them
\* holds the phrase, highlighting and extraction are on, and nothing was added
C8_Witness ==
    /\ HitDone
    /\ g_opts.highlight_gift_snippet /\ g_opts.extract_text
    /\ g_last.snippet_blocks # << >>
    /\ g_last.final_text = << >>
    /\ gift_doc = << >>
    /\ g_annots = << >>

(***************************************************************************)
(* Quantity highlight (process_pdf_file, part E).                          *)
(*                                                                         *)
(* A word token is a sequence of symbols: the digits, a sign, and other    *)
(* pieces of text, of which "Quantity:" and "quantity:" spell the phrase.  *)
(***************************************************************************)
Digits == { "0", "1", "2", "3" }

DigitValue(c) == CASE c = "0" -> 0 [] c = "1" -> 1 [] c = "2" -> 2 [] c = "3" -> 3

\* str.lower() on one symbol
LowerSym(c) == IF c = "Quantity:" THEN "quantity:" ELSE c

\* wtext.lower().startswith("quantity:")
StartsWithQuantity(tok) == tok # << >> /\ LowerSym(tok[1]) = "quantity:"

\* "quantity:" in lower_line, the line's text being its words joined by blanks
LineHasQuantity(words) ==
    \E w \in DOMAIN words : \E c \in DOMAIN words[w] : LowerSym(words[w][c]) = "quantity:"

\* the `for w_i, ... in enumerate(word_list)` loop with its break: the first word
\* that starts with "quantity:", 0 for None
QuantityIndex(words) ==
    LET S == { w \in DOMAIN words : StartsWithQuantity(words[w]) }
    IN  IF S = {} THEN 0 ELSE CHOOSE w \in S : \A v \in S : w <= v

\* int(next_text) succeeds: an optional sign, then digits only
ParsesAsInt(tok) ==
    LET body == IF tok # << >> /\ tok[1] \in { "-", "+" } THEN Tail(tok) ELSE tok
    IN  body # << >> /\ \A c \in DOMAIN body : body[c] \in Digits

RECURSIVE Base10(_, _)
Base10(ds, acc) ==
    IF ds = << >> THEN acc ELSE Base10(Tail(ds), 10 * acc + DigitValue(Head(ds)))

\* int(next_text) for a token that parses
IntValue(tok) ==
    IF tok[1] = "-" THEN 0 - Base10(Tail(tok), 0)
    ELSE IF tok[1] = "+" THEN Base10(Tail(tok), 0)
    ELSE Base10(tok, 0)

\* a threshold that also takes a quantity of 1
MeetsThreshold_one(val) == val >= 1

\* if val >= 2
MeetsThreshold(val) == val >= 2

\* the word indices highlighted on one line (at most one)
QuantityHighlights(words) ==
    LET qi == QuantityIndex(words)
    IN  IF /\ LineHasQuantity(words)
           /\ qi # 0
           /\ qi + 1 <= Len(words)
           /\ ParsesAsInt(words[qi + 1])
           /\ MeetsThreshold(IntValue(words[qi + 1]))
        THEN { qi + 1 }
        ELSE {}

\* the word tokens of the input pages
TokenPool ==
    { << "Quantity:" >>, << "(", "quantity:" >>, << "1" >>, << "3" >>,
      << "1", "2" >>, << "-", "3" >>, << "2", "x" >> }

RECURSIVE SplitAt(_, _, _)
\* the words ws cut into lines after the positions of B (k words consumed so far)
SplitAt(ws, B, k) ==
    IF ws = << >> THEN << >>
    ELSE LET cuts == { b \in B : b > k }
             n == IF cuts = {} THEN Len(ws)
                  ELSE (CHOOSE b \in cuts : \A c \in cuts : b <= c) - k
         IN  << SubSeq(ws, 1, n) >> \o SplitAt(SubSeq(ws, n + 1, Len(ws)), B, k + n)

\* the pages of at most MaxWords words, cut into non-empty lines in every way
QtyInit ==
    /\ \E n \in 0..MaxWords : \E ws \in [1..n -> TokenPool] :
          \E B \in SUBSET (1..(n - 1)) : q_lines = SplitAt(ws, B, 0)
    /\ q_opt \in BOOLEAN
    /\ q_i = 1
    /\ q_pc = "loop"
    /\ q_annots = {}

\* one iteration of `for (line_text, line_rect, word_list) in lines_data`
QtyLine ==
    /\ q_pc = "loop"
    /\ q_opt
    /\ q_i <= Len(q_lines)
    /\ q_annots' = q_annots \cup { << q_i, w >> : w \in QuantityHighlights(q_lines[q_i]) }
    /\ q_i' = q_i + 1
    /\ UNCHANGED << q_lines, q_opt, q_pc >>
    /\ UNCHANGED notQty

\* the option is off, or the lines are exhausted
QtyEnd ==
    /\ q_pc = "loop"
    /\ \/ ~q_opt
       \/ q_i > Len(q_lines)
    /\ q_pc' = "done"
    /\ UNCHANGED << q_lines, q_opt, q_i, q_annots >>
    /\ UNCHANGED notQty

QtyNext == QtyLine \/ QtyEnd

InitQty ==
    /\ QtyInit
    /\ PersOff
    /\ GiftOff
    /\ BatchOff
    /\ ShipOff
    /\ StampOff
    /\ PlaceOff
    /\ CompOff
    /\ RunOff

SpecQty == InitQty /\ [][QtyNext]_vars

(***************************************************************************)
(* Claims about the quantity highlight.                                    *)
(***************************************************************************)
\* word j of the line parses as an integer of at least 2
IsQuantityValue(words, j) ==
    /\ j \in DOMAIN words
    /\ ParsesAsInt(words[j])
    /\ IntValue(words[j]) >= 2

\* the lines the loop has passed
QtyPassed == IF q_opt THEN 1..(q_i - 1) ELSE {}

\* C5 as stated: with highlight_quantity set, a word is highlighted iff it comes
\* right after a word starting with "quantity:" on its line and parses as an
\* integer >= 2.
C5_QuantityHighlight_AsClaimed ==
    /\ q_pc = "done" => (q_opt => q_i = Len(q_lines) + 1)
    /\ \A n \in DOMAIN q_lines : \A j \in DOMAIN q_lines[n] :
          (q_opt /\ n \in QtyPassed) =>
             (<< n, j >> \in q_annots <=>
                 /\ j > 1
                 /\ StartsWithQuantity(q_lines[n][j - 1])
                 /\ IsQuantityValue(q_lines[n], j))

\* C5 amended: the word that counts is the first word of the line that starts
\* with "quantity:"; only the word right after that one can be highlighted.
C5_QuantityHighlight ==
    /\ q_pc = "done" => (q_opt => q_i = Len(q_lines) + 1)
    /\ q_annots \subseteq { << n, j >> : n \in QtyPassed, j \in 1..MaxWords }
    /\ \A n \in DOMAIN q_lines : \A j \in DOMAIN q_lines[n] :
          (q_opt /\ n \in QtyPassed) =>
             (<< n, j >> \in q_annots <=>
                 /\ j > 1
                 /\ StartsWithQuantity(q_lines[n][j - 1])
                 /\ \A i \in 1..(j - 2) : ~StartsWithQuantity(q_lines[n][i])
                 /\ IsQuantityValue(q_lines[n], j))

\* a finished page with a highlighted quantity on one line and, on another line,
\* a "quantity:" word followed by a word that is no integer (skipped, no error)
C5_Witness ==
    /\ q_pc = "done"
    /\ q_opt
    /\ \E m, n \in DOMAIN q_lines :
          /\ m # n
          /\ << m, 2 >> \in q_annots
          /\ Len(q_lines[n]) >= 2
          /\ StartsWithQuantity(q_lines[n][1])
          /\ ~ParsesAsInt(q_lines[n][2])
          /\ \A j \in DOMAIN q_lines[n] : << n, j >> \notin q_annots

(***************************************************************************)
(* Batch loop (PDFBatchProcessorGUI.process_files).                        *)
(*                                                                         *)
(* A document is given by what process_pdf_file meets on it: nothing       *)
(* ("ok"), a source fitz.open cannot open ("unopenable"), an exception     *)
(* while its pages are processed ("page_error"), or one in doc.save        *)
(* ("save_error").  name_modified.pdf is "absent", "stale" (left by an     *)
(* earlier run), "fresh" (written by this run) or "corrupt" (a save that   *)
(* failed part-way).                                                       *)
(***************************************************************************)
Fates == { "ok", "unopenable", "page_error", "save_error" }

\* process_pdf_file's try/except: the message it returns
ProcessResult(fate) == IF fate = "ok" THEN "Processed" ELSE "Error processing"

\* name_modified.pdf after process_pdf_file: written on success; a failure before
\* doc.save leaves it as it was, a failure inside doc.save may leave a broken file
OutAfterProcess(fate, before) ==
    CASE fate = "ok" -> { "fresh" }
      [] fate = "save_error" -> { before, "corrupt" }
      [] OTHER -> { before }

\* fitz.open(input_pdf) in a composer: raises on a missing or broken file, and
\* nothing in the composer or in process_files catches that
ComposerOpens(file) == file \in { "fresh", "stale" }

BatchInit ==
    /\ \E n \in 1..MaxDocs : pdf_files \in [1..n -> Fates]
    /\ generate_2up_thumbs \in BOOLEAN
    /\ out_files \in [1..Len(pdf_files) -> { "absent", "stale" }]
    /\ b_i = 1
    /\ b_pc = "process"
    /\ status_text = << [msg |-> "Processing started...", doc |-> 0] >>

\* step 1 of an iteration: process_pdf_file and log its result
BatchProcess ==
    /\ b_pc = "process"
    /\ b_i <= Len(pdf_files)
    /\ \E f \in OutAfterProcess(pdf_files[b_i], out_files[b_i]) :
          out_files' = [out_files EXCEPT ![b_i] = f]
    /\ status_text' = Append(status_text,
                             [msg |-> ProcessResult(pdf_files[b_i]), doc |-> b_i])
    /\ b_pc' = "compose"
    /\ UNCHANGED << pdf_files, generate_2up_thumbs, b_i >>
    /\ UNCHANGED notBatch

\* step 2 of an iteration: the two composers, when the option is set
BatchCompose ==
    /\ b_pc = "compose"
    /\ IF ~generate_2up_thumbs
       THEN /\ b_i' = b_i + 1
            /\ b_pc' = "process"
            /\ UNCHANGED status_text
       ELSE IF ComposerOpens(out_files[b_i])
       THEN /\ status_text' = status_text \o
                   << [msg |-> "2-up PDF created", doc |-> b_i],
                      [msg |-> "Thumbnail PDF created", doc |-> b_i] >>
            /\ b_i' = b_i + 1
            /\ b_pc' = "process"
       ELSE \* create_two_up_pdf raises: the exception leaves process_files
            /\ b_pc' = "aborted"
            /\ UNCHANGED << b_i, status_text >>
    /\ UNCHANGED << pdf_files, generate_2up_thumbs, out_files >>
    /\ UNCHANGED notBatch

\* the loop is over
BatchFinish ==
    /\ b_pc = "process"
    /\ b_i > Len(pdf_files)
    /\ status_text' = Append(status_text, [msg |-> "All files processed!", doc |-> 0])
    /\ b_pc' = "finished"
    /\ UNCHANGED << pdf_files, generate_2up_thumbs, out_files, b_i >>
    /\ UNCHANGED notBatch

BatchNext == BatchProcess \/ BatchCompose \/ BatchFinish

InitBatch ==
    /\ BatchInit
    /\ PersOff
    /\ GiftOff
    /\ QtyOff
    /\ ShipOff
    /\ StampOff
    /\ PlaceOff
    /\ CompOff
    /\ RunOff

SpecBatch == InitBatch /\ [][BatchNext]_vars

(***************************************************************************)
(* Claims about the batch loop.                                            *)
(***************************************************************************)
Logged(m, d) == \E n \in DOMAIN status_text : status_text[n] = [msg |-> m, doc |-> d]

\* C1 as stated: whatever the documents and the options, a document's failure is
\* reported as a labeled message and does not stop the batch: the loop is never
\* left early, every document it has passed has its message, and it ends with
\* every document processed and 'All files processed!' logged.
C1_BatchContinues_AsClaimed ==
    /\ b_pc # "aborted"
    /\ \A d \in DOMAIN pdf_files :
          (d < b_i /\ pdf_files[d] # "ok") => Logged("Error processing", d)
    /\ b_pc = "finished" =>
          /\ \A d \in DOMAIN pdf_files : Logged(ProcessResult(pdf_files[d]), d)
          /\ status_text[Len(status_text)].msg = "All files processed!"

\* C17 as stated: with generate_2up_thumbs set, a composer that has run for a
\* document read the name_modified.pdf which this run's annotation pass wrote
\* for it after processing all its pages: never a file this run did not write.
C17_ComposerSource_AsClaimed ==
    \A d \in DOMAIN pdf_files :
        Logged("2-up PDF created", d) =>
           /\ Logged("Processed", d)
           /\ out_files[d] = "fresh"

(***************************************************************************)
(* Ship-to extraction (process_pdf_file, part F).                          *)
(*                                                                         *)
(* A line is a record: the phrases its lower-cased text contains, its      *)
(* line_text, and its word_list (the texts of its word tokens, in reading  *)
(* order).                                                                 *)
(***************************************************************************)
ShipToLine == [phrases |-> { "ship to" }, line_text |-> "Ship To:",
               word_list |-> << "Ship", "To:" >>]

NameLine3 == [phrases |-> {}, line_text |-> "Anna Maria Lee",
              word_list |-> << "Anna", "Maria", "Lee" >>]

NameLine1 == [phrases |-> {}, line_text |-> "Anna",
              word_list |-> << "Anna" >>]

ShipLinePool == { ShipToLine, NameLine3, NameLine1 }

\* "ship to" in line_text.lower()
HasShipTo(line) == "ship to" \in line.phrases

\* " ".join(name_words) for name_words = the first two words
JoinTwo(words) == words[1] \o " " \o words[2]

\* extracted_name, from the line after the 'ship to' line
ExtractedName_full_text(next_line) == next_line.line_text

ExtractedName(next_line) ==
    IF Len(next_line.word_list) >= 2
    THEN JoinTwo(next_line.word_list)
    ELSE next_line.line_text

\* the index at which `for i in range(len(lines_data))` reaches its `break`:
\* the first line containing 'ship to' (0 when the loop runs to its end)
ShipToBreak(lines) ==
    IF \E i \in DOMAIN lines : HasShipTo(lines[i])
    THEN CHOOSE i \in DOMAIN lines :
            /\ HasShipTo(lines[i])
            /\ \A j \in 1..(i - 1) : ~HasShipTo(lines[j])
    ELSE 0

\* what one page appends to ship_to_info
ShipToOfPage(p, lines) ==
    LET i == ShipToBreak(lines)
    IN  IF i # 0 /\ i + 1 <= Len(lines)
        THEN << << p, ExtractedName(lines[i + 1]) >> >>
        ELSE << >>

ShipInit ==
    /\ s_total_pages \in 1..(MaxPages + 1)
    /\ s_pages = << >>
    /\ s_page_index = 1
    /\ s_pc = "loop"
    /\ ship_to_info = << >>

\* one iteration of `for page_index in range(1, total_pages)`, part F
ShipPage ==
    /\ s_pc = "loop"
    /\ s_page_index < s_total_pages
    /\ \E n \in 0..MaxShipLines : \E lines \in [1..n -> ShipLinePool] :
          /\ s_pages' = Append(s_pages, lines)
          /\ ship_to_info' = ship_to_info \o ShipToOfPage(s_page_index, lines)
    /\ s_page_index' = s_page_index + 1
    /\ UNCHANGED << s_total_pages, s_pc >>
    /\ UNCHANGED notShip

\* the page loop is over
ShipEnd ==
    /\ s_pc = "loop"
    /\ s_page_index >= s_total_pages
    /\ s_pc' = "done"
    /\ UNCHANGED << s_total_pages, s_pages, s_page_index, ship_to_info >>
    /\ UNCHANGED notShip

ShipNext == ShipPage \/ ShipEnd

InitShip ==
    /\ ShipInit
    /\ PersOff
    /\ GiftOff
    /\ QtyOff
    /\ BatchOff
    /\ StampOff
    /\ PlaceOff
    /\ CompOff
    /\ RunOff

SpecShip == InitShip /\ [][ShipNext]_vars

(***************************************************************************)
(* Claims about the ship-to extraction.                                    *)
(***************************************************************************)
\* the pages scanned so far
ShipScanned == DOMAIN s_pages

\* the entries of the ship-to list that belong to page p
EntriesOf(p) == { n \in DOMAIN ship_to_info : ship_to_info[n][1] = p }

\* the lines of page p that contain 'ship to'
ShipToLinesOf(p) == { i \in DOMAIN s_pages[p] : HasShipTo(s_pages[p][i]) }

\* the first of them
FirstShipTo(p) == CHOOSE i \in ShipToLinesOf(p) : \A j \in ShipToLinesOf(p) : i <= j

\* the name the claim gives for a following line
ClaimedName(line) ==
    IF Len(line.word_list) < 2
    THEN line.line_text
    ELSE line.word_list[1] \o " " \o line.word_list[2]

\* C11: the ship-to list holds at most one entry per page, in increasing page
\* order; a page whose first 'ship to' line has a following line has the entry
\* whose name is that line's first two word tokens joined by one space, or its
\* full text when it has fewer than two word tokens; no other entry exists for
\* the page, so later 'ship to' lines neither add nor replace one.
C11_ShipToList ==
    /\ \A m, n \in DOMAIN ship_to_info :
          m < n => ship_to_info[m][1] < ship_to_info[n][1]
    /\ \A n \in DOMAIN ship_to_info : ship_to_info[n][1] \in ShipScanned
    /\ \A p \in ShipScanned :
          /\ Cardinality(EntriesOf(p)) <= 1
          /\ (ShipToLinesOf(p) # {} /\ FirstShipTo(p) < Len(s_pages[p])) =>
                /\ EntriesOf(p) # {}
                /\ \A n \in EntriesOf(p) :
                      ship_to_info[n][2] = ClaimedName(s_pages[p][FirstShipTo(p) + 1])
          /\ ShipToLinesOf(p) = {} => EntriesOf(p) = {}

\* all pages scanned; one page has two 'ship to' lines, the later one with a line
\* after it, and yields the single entry of its first; another page's name line
\* has one word token only
C11_Witness ==
    /\ s_pc = "done"
    /\ \E p, q \in ShipScanned :
          /\ p < q
          /\ Cardinality(ShipToLinesOf(p)) >= 2
          /\ \A i \in ShipToLinesOf(p) : i < Len(s_pages[p])
          /\ ship_to_info[1] = << p, "Ship To:" >>
          /\ ShipToLinesOf(q) # {}
          /\ FirstShipTo(q) < Len(s_pages[q])
          /\ s_pages[q][FirstShipTo(q) + 1] = NameLine1
          /\ ship_to_info[2] = << q, "Anna" >>

(***************************************************************************)
(* Stamps (process_pdf_file, part G).                                      *)
(*                                                                         *)
(* The page text is the set of trigger phrases it contains.  The stamp     *)
(* table maps a key to an image path; a key that is absent, or whose value *)
(* is empty, has no asset.                                                 *)
(***************************************************************************)
\* the trigger checks, in the order of the `if` statements: the key looked up in
\* stamp_images and the phrases any of which triggers it
TriggerChecks ==
    << [key |-> "gift",     any |-> { gift_trigger_phrase }],
       [key |-> "igb",      any |-> { "igb" }],
       [key |-> "bubble",   any |-> { "upgrade label to priority - bubble" }],
       [key |-> "show",     any |-> { "show kd" }],
       [key |-> "pic",      any |-> { "pic kd", "pic " }],
       [key |-> "short",    any |-> { "short thins" }],
       [key |-> "hjlm",     any |-> { "hjlm" }],
       [key |-> "priority", any |-> { "priority box" }],
       [key |-> "fedex",    any |-> { "fedex" }] >>

StampKeys == { TriggerChecks[n].key : n \in DOMAIN TriggerChecks }

TriggerPhrases == UNION { TriggerChecks[n].any : n \in DOMAIN TriggerChecks }

\* the table the GUI builds
DefaultStampImages ==
    [k \in StampKeys |->
        CASE k = "gift" -> "gift_stamp.png"
          [] k = "igb" -> "igb.png"
          [] k = "bubble" -> "bubble.png"
          [] k = "show" -> "show.png"
          [] k = "pic" -> "pic.png"
          [] k = "short" -> "short.png"
          [] k = "hjlm" -> "HJLM.png"
          [] k = "priority" -> "priority.png"
          [] k = "fedex" -> "fed.png"]

\* stamp_images.get(key): None for an absent key
StampGet(images, key) == IF key \in DOMAIN images THEN images[key] ELSE ""

\* truth value of a path or None
Truthy(path) == path # ""

\* `<phrase> in page_text_lower and stamp_images.get(<key>)`
CheckPasses(check, text, images) ==
    /\ check.any \cap text # {}
    /\ Truthy(StampGet(images, check.key))

\* stamps_to_insert after the nine checks
StampsToInsert(text, images) ==
    LET passed == SelectSeq(TriggerChecks, LAMBDA c : CheckPasses(c, text, images))
    IN  [n \in DOMAIN passed |-> images[passed[n].key]]

stamp_height == 70

first_y_offset == 50

\* fitz.Rect(page_rect.width - 150, y_offset, page_rect.width - 20, y_offset + stamp_height)
stamp_rect(width, y) == << width - 150, y, width - 20, y + stamp_height >>

\* y_offset += (stamp_height + 10)
NextOffset_no_gap(y) == y + stamp_height

NextOffset(y) == y + (stamp_height + 10)

\* a text that contains "pic kd" contains "pic "
PageTexts == { t \in SUBSET TriggerPhrases : "pic kd" \in t => "pic " \in t }

\* stamp tables: the GUI's, with up to MaxUnconfigured keys without an asset,
\* either absent from the table or present with an empty value
StampTables ==
    { [k \in StampKeys \ absent |-> DefaultStampImages[k]] :
        absent \in { a \in SUBSET StampKeys : Cardinality(a) <= MaxUnconfigured } }
    \cup
    { [k \in StampKeys |-> IF k \in empty THEN "" ELSE DefaultStampImages[k]] :
        empty \in { e \in SUBSET StampKeys : Cardinality(e) <= MaxUnconfigured } }

StampInit ==
    /\ t_text \in PageTexts
    /\ stamp_images \in StampTables
    /\ add_stamps \in BOOLEAN
    /\ t_width \in { 595, 612 }
    /\ stamps_to_insert = << >>
    /\ y_offset = 0
    /\ t_k = 1
    /\ t_pc = "select"
    /\ t_placed = << >>

\* `if options['add_stamps']:` and the nine trigger checks
StampSelect ==
    /\ t_pc = "select"
    /\ IF add_stamps
       THEN /\ stamps_to_insert' = StampsToInsert(t_text, stamp_images)
            /\ y_offset' = first_y_offset
            /\ t_pc' = "place"
       ELSE /\ t_pc' = "done"
            /\ UNCHANGED << stamps_to_insert, y_offset >>
    /\ UNCHANGED << t_text, stamp_images, add_stamps, t_width, t_k, t_placed >>
    /\ UNCHANGED notStamp

\* one iteration of `for stamp_path in stamps_to_insert`
StampPlace ==
    /\ t_pc = "place"
    /\ t_k <= Len(stamps_to_insert)
    /\ t_placed' = Append(t_placed, [path |-> stamps_to_insert[t_k],
                                     rect |-> stamp_rect(t_width, y_offset)])
    /\ y_offset' = NextOffset(y_offset)
    /\ t_k' = t_k + 1
    /\ UNCHANGED << t_text, stamp_images, add_stamps, t_width, stamps_to_insert, t_pc >>
    /\ UNCHANGED notStamp

\* the placement loop is over
StampEnd ==
    /\ t_pc = "place"
    /\ t_k > Len(stamps_to_insert)
    /\ t_pc' = "done"
    /\ UNCHANGED << t_text, stamp_images, add_stamps, t_width, stamps_to_insert,
                    y_offset, t_k, t_placed >>
    /\ UNCHANGED notStamp

StampNext == StampSelect \/ StampPlace \/ StampEnd

InitStamp ==
    /\ StampInit
    /\ PersOff
    /\ GiftOff
    /\ QtyOff
    /\ BatchOff
    /\ ShipOff
    /\ PlaceOff
    /\ CompOff
    /\ RunOff

SpecStamp == InitStamp /\ [][StampNext]_vars

(***************************************************************************)
(* Claims about the stamps.                                                *)
(***************************************************************************)
\* the trigger-check order the claim fixes
ClaimedOrder ==
    << "gift", "igb", "bubble", "show", "pic", "short", "hjlm", "priority", "fedex" >>

\* key's trigger matches the page text
Matches(key) ==
    \E n \in DOMAIN TriggerChecks :
        TriggerChecks[n].key = key /\ TriggerChecks[n].any \cap t_text # {}

\* key has a configured asset
Configured(key) == key \in DOMAIN stamp_images /\ stamp_images[key] # ""

\* the keys whose stamps the claim expects, in the claimed order
ExpectedKeys == SelectSeq(ClaimedOrder, LAMBDA k : Matches(k) /\ Configured(k))

\* the rectangles of two placed stamps have no point in common
Disjoint(r, s) == r[3] <= s[1] \/ s[3] <= r[1] \/ r[4] < s[2] \/ s[4] < r[2]

\* C12: with add_stamps set, the stamps placed are exactly the assets of the
\* triggers that match the page text and have a configured asset, in the order
\* gift, igb, bubble, show, pic, short, hjlm, priority, fedex; a matched trigger
\* without an asset leaves no gap; the k-th placed stamp (k from 0) occupies y
\* from 50+80k to 120+80k and x from width-150 to width-20; no two overlap.
C12_StampStack ==
    /\ Len(t_placed) <= Len(ExpectedKeys)
    /\ (add_stamps /\ t_pc = "done") => Len(t_placed) = Len(ExpectedKeys)
    /\ ~add_stamps => t_placed = << >>
    /\ \A n \in DOMAIN t_placed :
          /\ t_placed[n].path = stamp_images[ExpectedKeys[n]]
          /\ t_placed[n].rect = << t_width - 150, 50 + 80 * (n - 1),
                                   t_width - 20, 120 + 80 * (n - 1) >>
    /\ \A m, n \in DOMAIN t_placed :
          m # n => Disjoint(t_placed[m].rect, t_placed[n].rect)

\* all stamps placed on a page where a matched trigger in the middle of the order
\* has no asset: the stamps after it close the gap
C12_Witness ==
    /\ t_pc = "done"
    /\ add_stamps
    /\ Len(t_placed) >= 3
    /\ \E n \in 2..(Len(ClaimedOrder) - 1) :
          /\ Matches(ClaimedOrder[n]) /\ ~Configured(ClaimedOrder[n])
          /\ \E a \in 1..(n - 1), b \in (n + 1)..Len(ClaimedOrder) :
                /\ Matches(ClaimedOrder[a]) /\ Configured(ClaimedOrder[a])
                /\ Matches(ClaimedOrder[b]) /\ Configured(ClaimedOrder[b])
    /\ Matches("pic") /\ "pic kd" \notin t_text

(***************************************************************************)
(* place_page_full.                                                        *)
(*                                                                         *)
(* Lengths here are exact fractions << numerator, denominator >> of a      *)
(* point, in lowest terms with a positive denominator; a rectangle is      *)
(* << x0, y0, x1, y1 >> of such fractions.                                 *)
(***************************************************************************)
RECURSIVE Gcd(_, _)
Gcd(a, b) == IF b = 0 THEN a ELSE Gcd(b, a % b)

Abs(n) == IF n < 0 THEN -n ELSE n

\* the fraction n/d in lowest terms (d # 0)
Frac(n, d) ==
    LET g == Gcd(Abs(n), Abs(d))
        s == IF d < 0 THEN -1 ELSE 1
    IN  << (s * n) \div g, (s * d) \div g >>

Whole(n) == << n, 1 >>

\* sums and products cancel common factors before they multiply
FAdd(a, b) ==
    LET g == Gcd(a[2], b[2])
    IN  Frac(a[1] * (b[2] \div g) + b[1] * (a[2] \div g), (a[2] \div g) * b[2])

FSub(a, b) == FAdd(a, << -b[1], b[2] >>)

FMul(a, b) ==
    LET g == Gcd(Abs(a[1]), b[2])
        h == Gcd(Abs(b[1]), a[2])
    IN  Frac((a[1] \div g) * (b[1] \div h), (a[2] \div h) * (b[2] \div g))

\* a / b, for b # 0
FDiv(a, b) == FMul(a, Frac(b[2], b[1]))

FLeq(a, b) == a[1] * b[2] <= b[1] * a[2]

FLess(a, b) == a[1] * b[2] < b[1] * a[2]

FMin(a, b) == IF FLeq(a, b) THEN a ELSE b

\* fitz.Rect.width and .height
Width(r) == FSub(r[3], r[1])

Height(r) == FSub(r[4], r[2])

\* scale = min(target_rect.width / in_rect.width, target_rect.height / in_rect.height)
FitScale_width_only(target_rect, in_rect) ==
    FDiv(Width(target_rect), Width(in_rect))

FitScale(target_rect, in_rect) ==
    FMin(FDiv(Width(target_rect), Width(in_rect)),
         FDiv(Height(target_rect), Height(in_rect)))

\* show_rect of place_page_full(doc_out_page, doc_in, in_page_index, target_rect)
place_page_full(in_rect, target_rect) ==
    LET scale == FitScale(target_rect, in_rect)
        new_w == FMul(Width(in_rect), scale)
        new_h == FMul(Height(in_rect), scale)
        left  == FAdd(target_rect[1], FDiv(FSub(Width(target_rect), new_w), Whole(2)))
        top   == target_rect[2]
    IN  << left, top, FAdd(left, new_w), FAdd(top, new_h) >>

\* a page rectangle of the given size, at the origin
PageRect(w, h) == << Whole(0), Whole(0), Whole(w), Whole(h) >>

\* side lengths of the pages and cells tried, in points
Sides == { 100 * n : n \in 1..MaxPageSide } \cup { 150, 595, 612, 792, 842 }

\* corners of the cells tried
Corners == { Whole(0), Whole(421), Frac(595, 3) }

PlaceInit ==
    /\ \E w, h \in Sides : pl_in_rect = PageRect(w, h)
    /\ \E x0 \in Corners, y0 \in { Whole(0), Whole(421) } : \E w, h \in Sides :
          pl_target_rect = << x0, y0, FAdd(x0, Frac(w * 3 + 1, 3)), FAdd(y0, Whole(h)) >>
             \/ pl_target_rect = << x0, y0, FAdd(x0, Whole(w)), FAdd(y0, Whole(h)) >>
    /\ pl_show_rect = << >>
    /\ pl_pc = "call"

\* the call: show_rect is computed and handed to show_pdf_page
PlaceCall ==
    /\ pl_pc = "call"
    /\ pl_show_rect' = place_page_full(pl_in_rect, pl_target_rect)
    /\ pl_pc' = "shown"
    /\ UNCHANGED << pl_in_rect, pl_target_rect >>
    /\ UNCHANGED notPlace

PlaceNext == PlaceCall

InitPlace ==
    /\ PlaceInit
    /\ PersOff
    /\ GiftOff
    /\ QtyOff
    /\ BatchOff
    /\ ShipOff
    /\ StampOff
    /\ CompOff
    /\ RunOff

SpecPlace == InitPlace /\ [][PlaceNext]_vars

(***************************************************************************)
(* Claims about place_page_full.                                           *)
(***************************************************************************)
\* the uniform scale the claim names
ClaimedScale ==
    LET rw == FDiv(Width(pl_target_rect), Width(pl_in_rect))
        rh == FDiv(Height(pl_target_rect), Height(pl_in_rect))
    IN  IF FLess(rh, rw) THEN rh ELSE rw

\* C15: for a page and a cell of positive width and height, the placed rectangle
\* is the page scaled by min(cell width / page width, cell height / page height)
\* in both directions, so it keeps the page's aspect ratio; it lies inside the
\* cell, its top edge is the cell's top edge, and its left and right margins in
\* the cell are equal.
C15_ScaleToFit ==
    pl_pc = "shown" =>
       /\ Width(pl_show_rect) = FMul(Width(pl_in_rect), ClaimedScale)
       /\ Height(pl_show_rect) = FMul(Height(pl_in_rect), ClaimedScale)
       /\ FMul(Width(pl_show_rect), Height(pl_in_rect))
             = FMul(Height(pl_show_rect), Width(pl_in_rect))
       /\ FLeq(pl_target_rect[1], pl_show_rect[1])
       /\ FLeq(pl_show_rect[3], pl_target_rect[3])
       /\ FLeq(pl_show_rect[4], pl_target_rect[4])
       /\ pl_show_rect[2] = pl_target_rect[2]
       /\ FSub(pl_show_rect[1], pl_target_rect[1])
             = FSub(pl_target_rect[3], pl_show_rect[3])

\* the claim's example: a 300x400 page in a 150x150 cell is scaled by 0.375 to
\* 112.5x150 with left offset 18.75
C15_Witness ==
    /\ pl_pc = "shown"
    /\ pl_in_rect = PageRect(300, 400)
    /\ pl_target_rect = << Whole(0), Whole(0), Whole(150), Whole(150) >>
    /\ ClaimedScale = Frac(375, 1000)
    /\ Width(pl_show_rect) = Frac(1125, 10)
    /\ Height(pl_show_rect) = Whole(150)
    /\ pl_show_rect[1] = Frac(1875, 100)

(***************************************************************************)
(* The composers.                                                          *)
(*                                                                         *)
(* Source pages are numbered from 0, as in the code.  A sheet is the       *)
(* sequence of the cells filled on it, each a record of the cell, the      *)
(* source page shown in it and the rectangle it is shown in.               *)
(***************************************************************************)
two_up_page_width == 842

two_up_page_height == 595

thumb_page_width == 595

thumb_page_height == 842

columns == 3

rows == 2

thumbs_per_page == columns * rows

left_rect ==
    << Whole(0), Whole(0), Frac(two_up_page_width, 2), Whole(two_up_page_height) >>

right_rect ==
    << Frac(two_up_page_width, 2), Whole(0), Whole(two_up_page_width),
       Whole(two_up_page_height) >>

slot_w == Frac(thumb_page_width, columns)

slot_h == Frac(thumb_page_height, rows)

\* target_rect of the thumbnail cell in the given row and column
target_rect(row, col) ==
    LET x0 == FMul(Whole(col), slot_w)
        y0 == FMul(Whole(row), slot_h)
    IN  << x0, y0, FAdd(x0, slot_w), FAdd(y0, slot_h) >>

\* `if i + 1 < num_pages`
RightPresent_always(i, n) == TRUE

RightPresent(i, n) == i + 1 < n

\* the place_page_full calls of the 2-up iteration for i, in order
TwoUpCalls(i, n) ==
    << [cell |-> "left", src |-> i, target |-> left_rect] >>
    \o (IF RightPresent(i, n)
        THEN << [cell |-> "right", src |-> i + 1, target |-> right_rect] >>
        ELSE << >>)

\* page_indexes = list(range(1, num_pages)), as a sequence
page_indexes_from_first(n) == [k \in 1..n |-> k - 1]

page_indexes(n) == [k \in 1..(n - 1) |-> k]

\* chunk = page_indexes[start_idx : start_idx + thumbs_per_page]
Chunk(start_idx, n) ==
    SubSeq(page_indexes(n), start_idx + 1,
           IF start_idx + thumbs_per_page <= Len(page_indexes(n))
           THEN start_idx + thumbs_per_page
           ELSE Len(page_indexes(n)))

\* the place_page_full calls of the thumbnail iteration for start_idx, in order
ThumbCalls(start_idx, n) ==
    LET chunk == Chunk(start_idx, n)
    IN  [k \in DOMAIN chunk |->
            LET i == k - 1
                row == i \div columns
                col == i % columns
            IN  [cell |-> << row, col >>, src |-> chunk[k],
                 target |-> target_rect(row, col)]]

\* try: place_page_full(...) except ValueError: pass -- the calls that fill a cell
Shown_until_empty(calls, in_rect, empty) ==
    LET first == IF \E k \in DOMAIN calls : calls[k].src \in empty
                 THEN CHOOSE k \in DOMAIN calls :
                         /\ calls[k].src \in empty
                         /\ \A j \in 1..(k - 1) : calls[j].src \notin empty
                 ELSE Len(calls) + 1
    IN  [k \in 1..(first - 1) |->
            [cell |-> calls[k].cell, src |-> calls[k].src,
             show_rect |-> place_page_full(in_rect, calls[k].target)]]

Shown(calls, in_rect, empty) ==
    LET ok == SelectSeq(calls, LAMBDA c : c.src \notin empty)
    IN  [k \in DOMAIN ok |->
            [cell |-> ok[k].cell, src |-> ok[k].src,
             show_rect |-> place_page_full(in_rect, ok[k].target)]]

CompInit ==
    /\ c_kind \in { "two_up", "thumb" }
    /\ num_pages \in 0..MaxSourcePages
    /\ c_in_rect \in { PageRect(612, 687), PageRect(842, 595) }
    /\ c_empty \in SUBSET (0..(num_pages - 1))
    /\ c_i = 0
    /\ c_pc = "start"
    /\ doc_out = << >>
    /\ c_output = << >>

\* create_two_up_pdf up to its loop: `if num_pages == 0: return`
TwoUpStart ==
    /\ c_kind = "two_up"
    /\ c_pc = "start"
    /\ c_pc' = IF num_pages = 0 THEN "returned" ELSE "loop"
    /\ UNCHANGED << c_kind, num_pages, c_in_rect, c_empty, c_i, doc_out, c_output >>
    /\ UNCHANGED notComp

\* one iteration of `for i in range(0, num_pages, 2)`
TwoUpSheet ==
    /\ c_kind = "two_up"
    /\ c_pc = "loop"
    /\ c_i < num_pages
    /\ doc_out' = Append(doc_out, Shown(TwoUpCalls(c_i, num_pages), c_in_rect, c_empty))
    /\ c_i' = c_i + 2
    /\ UNCHANGED << c_kind, num_pages, c_in_rect, c_empty, c_pc, c_output >>
    /\ UNCHANGED notComp

\* create_six_page_thumbnail_pdf up to its loop: `if num_pages < 2: return`
ThumbStart ==
    /\ c_kind = "thumb"
    /\ c_pc = "start"
    /\ c_pc' = IF num_pages < 2 THEN "returned" ELSE "loop"
    /\ UNCHANGED << c_kind, num_pages, c_in_rect, c_empty, c_i, doc_out, c_output >>
    /\ UNCHANGED notComp

\* one iteration of `for start_idx in range(0, len(page_indexes), thumbs_per_page)`
ThumbSheet ==
    /\ c_kind = "thumb"
    /\ c_pc = "loop"
    /\ c_i < Len(page_indexes(num_pages))
    /\ doc_out' = Append(doc_out, Shown(ThumbCalls(c_i, num_pages), c_in_rect, c_empty))
    /\ c_i' = c_i + thumbs_per_page
    /\ UNCHANGED << c_kind, num_pages, c_in_rect, c_empty, c_pc, c_output >>
    /\ UNCHANGED notComp

\* the loop is over: doc_out.save(output_pdf)
CompSave ==
    /\ c_pc = "loop"
    /\ \/ c_kind = "two_up" /\ c_i >= num_pages
       \/ c_kind = "thumb" /\ c_i >= Len(page_indexes(num_pages))
    /\ c_output' = << doc_out >>
    /\ c_pc' = "saved"
    /\ UNCHANGED << c_kind, num_pages, c_in_rect, c_empty, c_i, doc_out >>
    /\ UNCHANGED notComp

CompNext == TwoUpStart \/ TwoUpSheet \/ ThumbStart \/ ThumbSheet \/ CompSave

InitComp ==
    /\ CompInit
    /\ PersOff
    /\ GiftOff
    /\ QtyOff
    /\ BatchOff
    /\ ShipOff
    /\ StampOff
    /\ PlaceOff
    /\ RunOff

SpecComp == InitComp /\ [][CompNext]_vars

(***************************************************************************)
(* Claims about the composers.                                             *)
(***************************************************************************)
\* ceil(a / b) for b > 0
CeilDiv(a, b) == (a + b - 1) \div b

\* the source pages shown in the given cell of sheet s (sheets counted from 0)
InCell(s, cell) ==
    { doc_out[s + 1][k].src : k \in { j \in DOMAIN doc_out[s + 1] :
                                        doc_out[s + 1][j].cell = cell } }

\* the cells of all sheets where source page p is shown
CellsOf(p) ==
    { << s, k >> \in (DOMAIN doc_out) \X (1..thumbs_per_page) :
         k \in DOMAIN doc_out[s] /\ doc_out[s][k].src = p }

\* the sheets made so far, counted from 0
SheetsMade == 0..(Len(doc_out) - 1)

\* the source pages in the order in which the sheets show them
RECURSIVE Flatten(_)
Flatten(sheets) ==
    IF sheets = << >> THEN << >>
    ELSE [k \in DOMAIN Head(sheets) |-> Head(sheets)[k].src] \o Flatten(Tail(sheets))

Increasing(seq) == \A a, b \in DOMAIN seq : a < b => seq[a] < seq[b]

\* C13 as stated: the 2-up composer emits ceil(N/2) sheets, sheet s has source
\* page 2s in its left cell and 2s+1 in its right cell when 2s+1 < N and nothing
\* in it otherwise, and every source page appears in exactly one cell, in order.
C13_TwoUp_AsClaimed ==
    c_kind = "two_up" =>
       /\ \A s \in SheetsMade :
             /\ InCell(s, "left") = { 2 * s }
             /\ InCell(s, "right") = IF 2 * s + 1 < num_pages THEN { 2 * s + 1 } ELSE {}
       /\ (c_pc = "saved" /\ num_pages >= 1) =>
             /\ Len(doc_out) = CeilDiv(num_pages, 2)
             /\ c_output = << doc_out >>
             /\ \A p \in 0..(num_pages - 1) : Cardinality(CellsOf(p)) = 1
             /\ Increasing(Flatten(doc_out))

\* C13, consistent with the code: the same, for the source pages that
\* show_pdf_page does not judge empty; the cell of an empty page stays unfilled
\* and the page appears in no cell.
C13_TwoUp ==
    c_kind = "two_up" =>
       /\ \A s \in SheetsMade :
             /\ InCell(s, "left") = { 2 * s } \ c_empty
             /\ InCell(s, "right") =
                   (IF 2 * s + 1 < num_pages THEN { 2 * s + 1 } ELSE {}) \ c_empty
             /\ Len(doc_out[s + 1]) <= 2
       /\ (num_pages >= 1 /\ c_pc \in { "loop", "saved" }) =>
             Len(doc_out) <= CeilDiv(num_pages, 2)
       /\ (c_pc = "saved" /\ num_pages >= 1) =>
             /\ Len(doc_out) = CeilDiv(num_pages, 2)
             /\ c_output = << doc_out >>
             /\ \A p \in 0..(num_pages - 1) :
                   Cardinality(CellsOf(p)) = IF p \in c_empty THEN 0 ELSE 1
             /\ Increasing(Flatten(doc_out))
       /\ c_pc = "saved" => num_pages >= 1

\* a saved 2-up of 5 pages, none empty: 3 sheets, the 3rd with its left cell only
C13_Witness ==
    /\ c_kind = "two_up"
    /\ c_pc = "saved"
    /\ num_pages = 5
    /\ c_empty = {}
    /\ Len(doc_out) = 3
    /\ InCell(2, "left") = { 4 }
    /\ InCell(2, "right") = {}
    /\ InCell(1, "right") = { 3 }

\* the thumbnail cell the claim gives source page p: sheet, row and column
ClaimedSheet(p) == (p - 1) \div 6

ClaimedCell(p) == << ((p - 1) % 6) \div 3, (p - 1) % 3 >>

\* the source pages the claim puts in cell `cell` of sheet s
ClaimedIn(s, cell) ==
    { p \in 1..(num_pages - 1) : ClaimedSheet(p) = s /\ ClaimedCell(p) = cell }

ThumbCells == (0..(rows - 1)) \X (0..(columns - 1))

\* C14 as stated: the thumbnail composer never places source page 0; for N < 2
\* it produces no output file; for N >= 2 it emits ceil((N-1)/6) sheets and
\* source page p (1 <= p < N) is placed on sheet (p-1) div 6 in cell row
\* ((p-1) mod 6) div 3, column (p-1) mod 3, and nowhere else.
C14_Thumb_AsClaimed ==
    c_kind = "thumb" =>
       /\ CellsOf(0) = {}
       /\ num_pages < 2 => (c_pc # "saved" /\ doc_out = << >> /\ c_output = << >>)
       /\ \A s \in SheetsMade : \A cell \in ThumbCells :
             InCell(s, cell) = ClaimedIn(s, cell)
       /\ (c_pc = "saved" /\ num_pages >= 2) =>
             /\ Len(doc_out) = CeilDiv(num_pages - 1, 6)
             /\ c_output = << doc_out >>
             /\ \A p \in 1..(num_pages - 1) : Cardinality(CellsOf(p)) = 1

\* C14, consistent with the code: the same, for the source pages that
\* show_pdf_page does not judge empty; the cell of an empty page stays unfilled.
C14_Thumb ==
    c_kind = "thumb" =>
       /\ CellsOf(0) = {}
       /\ num_pages < 2 => (c_pc # "saved" /\ doc_out = << >> /\ c_output = << >>)
       /\ \A s \in SheetsMade :
             /\ \A cell \in ThumbCells :
                   InCell(s, cell) = ClaimedIn(s, cell) \ c_empty
             /\ \A k \in DOMAIN doc_out[s + 1] : doc_out[s + 1][k].cell \in ThumbCells
       /\ (num_pages >= 2 /\ c_pc \in { "loop", "saved" }) =>
             Len(doc_out) <= CeilDiv(num_pages - 1, 6)
       /\ (c_pc = "saved" /\ num_pages >= 2) =>
             /\ Len(doc_out) = CeilDiv(num_pages - 1, 6)
             /\ c_output = << doc_out >>
             /\ \A p \in 1..(num_pages - 1) :
                   Cardinality(CellsOf(p)) = IF p \in c_empty THEN 0 ELSE 1
             /\ Increasing(Flatten(doc_out))

\* a saved thumbnail file of 7 pages, none empty: one sheet, its six cells filled,
\* source page 1 in row 0, column 0
C14_Witness ==
    /\ c_kind = "thumb"
    /\ c_pc = "saved"
    /\ num_pages = 7
    /\ c_empty = {}
    /\ Len(doc_out) = 1
    /\ \A cell \in ThumbCells : InCell(0, cell) # {}
    /\ InCell(0, << 0, 0 >>) = { 1 }
    /\ InCell(0, << 1, 2 >>) = { 6 }

\* the place_page_full calls made for sheet s (from 0), in order
CallsOfSheet(s) ==
    IF c_kind = "two_up"
    THEN TwoUpCalls(2 * s, num_pages)
    ELSE ThumbCalls(thumbs_per_page * s, num_pages)

\* sheet s as it would be had no source page been empty
SheetWithoutEmpty(s) == Shown(CallsOfSheet(s), c_in_rect, {})

\* the number of sheets had no source page been empty
SheetsWithoutEmpty ==
    IF c_kind = "two_up" THEN CeilDiv(num_pages, 2) ELSE CeilDiv(num_pages - 1, 6)

\* C16: in both composers a source page judged empty (ValueError) leaves only its
\* own cell unfilled: each sheet is emitted with every other page in the cell,
\* and the rectangle, it has when no page is empty; the number of sheets is the
\* same; the run ends only by saving the output file (or, whatever the empty
\* pages, by the early return for a source too short).
C16_EmptyPageSkipsCell ==
    c_kind \in { "two_up", "thumb" } =>
       /\ \A s \in SheetsMade :
             doc_out[s + 1] =
                SelectSeq(SheetWithoutEmpty(s), LAMBDA c : c.src \notin c_empty)
       /\ c_pc \in { "start", "loop", "saved", "returned" }
       /\ c_pc = "returned" => num_pages < 2
       /\ c_pc = "saved" =>
             /\ Len(doc_out) = SheetsWithoutEmpty
             /\ c_output = << doc_out >>

\* a saved thumbnail file of two sheets where an empty page sits in the middle of
\* the first sheet and the pages after it are in their cells; also a sheet whose
\* only page is empty, emitted with no cell filled
C16_Witness ==
    /\ c_kind = "thumb"
    /\ c_pc = "saved"
    /\ num_pages = 8
    /\ c_empty = { 2, 7 }
    /\ Len(doc_out) = 2
    /\ InCell(0, << 0, 1 >>) = {}
    /\ InCell(0, << 0, 2 >>) = { 3 }
    /\ InCell(0, << 1, 2 >>) = { 6 }
    /\ doc_out[2] = << >>

(***************************************************************************)
(* Parts B, C and D of process_pdf_file, page after page.                  *)
(*                                                                         *)
(* A page is the sequence of its text blocks, as in the gift step; its     *)
(* lines, for the personalization scan, are the lines of its blocks in     *)
(* page order.  Colours are named instead of given as RGB triples.         *)
(***************************************************************************)
purple_color == "purple"

yellow_color == "yellow"

highlight_only_phrase == "gift message included"

\* page.search_for("gift message included", flags=1): one hit for each line of
\* the page that holds the phrase
RECURSIVE ExactHits(_)
ExactHits(blocks) ==
    IF blocks = << >> THEN << >>
    ELSE LET b == Head(blocks)
             ks == SelectSeq([k \in 1..Len(b.text) |-> k],
                             LAMBDA k : highlight_only_phrase \in b.text[k])
         IN  [n \in 1..Len(ks) |-> HitOfLine(b, ks[n])] \o ExactHits(Tail(blocks))

\* get_lines(page): the lines of the blocks, in page order
RECURSIVE get_lines(_)
get_lines(blocks) ==
    IF blocks = << >> THEN << >>
    ELSE Head(blocks).text \o get_lines(Tail(blocks))

\* the inner while loop from next_idx on: the index at which it ends
RECURSIVE InnerLoopEnd(_, _)
InnerLoopEnd(lines, nx) ==
    IF nx > Len(lines) \/ BlockStops(lines[nx]) THEN nx
    ELSE InnerLoopEnd(lines, nx + 1)

\* the outer while loop from i on: the lines written out, in order
RECURSIVE ScanFrom(_, _, _, _)
ScanFrom(lines, i, cur, acc) ==
    IF i > Len(lines) THEN acc
    ELSE LET flag == DescriptorUpdate(cur, lines[i])
         IN  IF personalization_marker \in lines[i] /\ flag
             THEN LET nx == InnerLoopEnd(lines, i + 1)
                  IN  ScanFrom(lines, ResumeIdx(nx), flag,
                               acc \o [k \in 1..(nx - i) |-> i + k - 1])
             ELSE ScanFrom(lines, i + 1, flag, acc)

\* the lines part D writes out for a page
PersonalizationLines(lines) == ScanFrom(lines, 1, FALSE, << >>)

Block(x0, y0, x1, y1, t) == [rect |-> << Pt(x0), Pt(y0), Pt(x1), Pt(y1) >>, text |-> t]

GMI_LINE == { "gift message", "gift message included" }

CUSTOM_ITEM == { "word or message:", "custom" }

PLAIN_ITEM == { "word or message:" }

PERS_LINE == { personalization_marker, "anna" }

SKU_LINE == { "sku:" }

\* layouts of a content page
RunPagePool ==
    { \* no trigger phrase and no marker
      << Block(200, 500, 400, 512, << NOTE >>) >>,
      \* 'Gift Message included' and, further down, a custom item with one
      \* personalization line
      << Block(200, 300, 400, 312, << GMI_LINE >>),
         Block(200, 500, 400, 536, << CUSTOM_ITEM, PERS_LINE, SKU_LINE >>) >>,
      \* the same with the item right below the phrase
      << Block(200, 300, 400, 312, << GMI_LINE >>),
         Block(200, 330, 400, 366, << CUSTOM_ITEM, PERS_LINE, SKU_LINE >>) >>,
      \* the phrase in the first excluded zone
      << Block(100, 300, 190, 312, << GMI_LINE >>),
         Block(200, 500, 400, 536, << CUSTOM_ITEM, PERS_LINE, SKU_LINE >>) >>,
      \* an item that is not custom
      << Block(200, 500, 400, 536, << PLAIN_ITEM, PERS_LINE, SKU_LINE >>) >>,
      \* a gift message of two blocks and a custom item of two personalization lines
      << Block(200, 300, 400, 312, << GM >>),
         Block(200, 330, 400, 342, << NOTE >>),
         Block(200, 500, 400, 536, << CUSTOM_ITEM, PERS_LINE, { "anna" } >>) >> }

OptionNames ==
    { "crop_pages", "highlight_gmi", "highlight_gift_snippet", "extract_text",
      "highlight_personalization" }

RunInit ==
    /\ \E n \in 1..MaxRunPages : r_doc \in [1..n -> RunPagePool]
    /\ options \in [OptionNames -> BOOLEAN]
    /\ r_page_index = 1
    /\ r_hit_no = 1
    /\ r_pc = "B"
    /\ r_seen = << >>
    /\ r_gift_doc = << >>
    /\ r_pers_doc = << >>
    /\ r_annots = {}

\* the page loop reaches a content page; part B: the exact phrase is highlighted
RunExactPhrase ==
    /\ r_pc = "B"
    /\ r_page_index <= Len(r_doc)
    /\ r_seen' = (r_page_index :> FreshSeen(r_seen, r_page_index)) @@ r_seen
    /\ LET hits == ExactHits(r_doc[r_page_index])
       IN  r_annots' =
              IF options.highlight_gmi
              THEN r_annots \cup
                     { [page |-> r_page_index, color |-> purple_color,
                        kind |-> "phrase", at |-> << n, hits[n] >>] : n \in DOMAIN hits }
              ELSE r_annots
    /\ r_hit_no' = 1
    /\ r_pc' = "C"
    /\ UNCHANGED << r_doc, options, r_page_index, r_gift_doc, r_pers_doc >>
    /\ UNCHANGED notRun

\* part C: one iteration of `for inst in hits`
RunSnippetHit ==
    /\ r_pc = "C"
    /\ options.highlight_gift_snippet \/ options.extract_text
    /\ r_hit_no <= Len(PageHits(r_doc[r_page_index]))
    /\ LET inst == PageHits(r_doc[r_page_index])[r_hit_no]
           sb == SnippetBlocks(r_doc[r_page_index], expanded_rect(inst),
                               get_excluded_rects(PageHeight(options)))
           final_text == Strip(CapturedLines(SnippetLines(sb)))
           new == IsNewEntry(options, final_text, r_seen[r_page_index])
       IN  /\ r_seen' = IF new
                        THEN [r_seen EXCEPT ![r_page_index] = @ \cup { final_text }]
                        ELSE r_seen
           /\ r_gift_doc' = IF new
                            THEN Append(r_gift_doc, << r_page_index, final_text >>)
                            ELSE r_gift_doc
           /\ r_annots' =
                 IF AddsHighlight(options, sb)
                 THEN r_annots \cup
                        { [page |-> r_page_index, color |-> purple_color,
                           kind |-> "snippet", at |-> << r_hit_no, BoundingRect(sb) >>] }
                 ELSE r_annots
    /\ r_hit_no' = r_hit_no + 1
    /\ UNCHANGED << r_doc, options, r_page_index, r_pc, r_pers_doc >>
    /\ UNCHANGED notRun

\* part C is over (skipped, or its hits exhausted); part D: the personalization
\* scan of the page; then the next page
RunPersonalization ==
    /\ r_pc = "C"
    /\ \/ ~(options.highlight_gift_snippet \/ options.extract_text)
       \/ r_hit_no > Len(PageHits(r_doc[r_page_index]))
    /\ LET lines == get_lines(r_doc[r_page_index])
           out == PersonalizationLines(lines)
       IN  /\ r_pers_doc' =
                 IF options.extract_text
                 THEN r_pers_doc \o [k \in DOMAIN out |-> << r_page_index, out[k] >>]
                 ELSE r_pers_doc
           /\ r_annots' =
                 IF options.highlight_personalization
                 THEN r_annots \cup UNION
                        { { [page |-> r_page_index, color |-> yellow_color,
                             kind |-> "word", at |-> << out[k], w >>] :
                               w \in HighlightWords(lines[out[k]]) } : k \in DOMAIN out }
                 ELSE r_annots
    /\ r_page_index' = r_page_index + 1
    /\ r_pc' = IF r_page_index + 1 > Len(r_doc) THEN "done" ELSE "B"
    /\ UNCHANGED << r_doc, options, r_hit_no, r_seen, r_gift_doc >>
    /\ UNCHANGED notRun

RunNext == RunExactPhrase \/ RunSnippetHit \/ RunPersonalization

InitRun ==
    /\ RunInit
    /\ PersOff
    /\ GiftOff
    /\ QtyOff
    /\ BatchOff
    /\ ShipOff
    /\ StampOff
    /\ PlaceOff
    /\ CompOff

SpecRun == InitRun /\ [][RunNext]_vars

(***************************************************************************)
(* Claim about the run end to end.                                         *)
(***************************************************************************)
\* the lines of page p that hold the phrase: << block, line of the block >>
LinesWith(p, phrase) ==
    { << b, k >> \in (DOMAIN r_doc[p]) \X (1..MaxLines) :
         k \in DOMAIN r_doc[p][b].text /\ phrase \in r_doc[p][b].text[k] }

\* the block is outside the excluded zones of the page
OutsideZones(rect) ==
    LET zones == get_excluded_rects(PageHeight(options))
    IN  \A z \in DOMAIN zones : ~Intersects(rect, zones[z])

\* page p holds exactly one personalization line, of a custom item, alone in
\* its block: a stop keyword, or the end of the page, follows it
OneCustomLine(p) ==
    LET lines == get_lines(r_doc[p])
    IN  \E i \in 2..Len(lines) :
           /\ \A j \in DOMAIN lines : personalization_marker \in lines[j] <=> j = i
           /\ is_descriptor(lines[i - 1]) /\ "custom" \in lines[i - 1]
           /\ i = Len(lines) \/ HasStopKeyword(lines[i + 1])

\* the input of the claim: three content pages, all options set; page 1 holds
\* 'Gift Message included' once, outside the excluded zones, and one custom
\* personalization line; the other pages hold neither phrase
EndToEndInput ==
    /\ \A o \in OptionNames : options[o]
    /\ Len(r_doc) = 3
    /\ Cardinality(LinesWith(1, highlight_only_phrase)) = 1
    /\ LinesWith(1, gift_trigger_phrase) = LinesWith(1, highlight_only_phrase)
    /\ \A bk \in LinesWith(1, highlight_only_phrase) : OutsideZones(r_doc[1][bk[1]].rect)
    /\ OneCustomLine(1)
    /\ \A p \in { 2, 3 } :
          /\ LinesWith(p, gift_trigger_phrase) = {}
          /\ LinesWith(p, personalization_marker) = {}

Purple == { a \in r_annots : a.color = purple_color }

Yellow == { a \in r_annots : a.color = yellow_color }

\* C18 as stated: on that input the run produces exactly one purple highlight
\* annotation, one yellow highlight block (the words of the one personalization
\* line), exactly one paragraph in the gift-message document and exactly one in
\* the personalization document, both tagged '[Page 1]'.
C18_EndToEnd_AsClaimed ==
    (EndToEndInput /\ r_pc = "done") =>
       /\ Cardinality(Purple) = 1
       /\ Yellow # {}
       /\ \A a, b \in Yellow : a.page = 1 /\ a.at[1] = b.at[1]
       /\ Len(r_gift_doc) = 1 /\ r_gift_doc[1][1] = 1
       /\ Len(r_pers_doc) = 1 /\ r_pers_doc[1][1] = 1

=============================================================================
